---- MODULE Spec2Model ----
(***************************************************************************)
(* Model of the RepoWiki agent loop (packages/core/src/agent): runAgent,   *)
(* its response parser, its source verifier and the tool registry it       *)
(* dispatches to.                                                          *)
(*                                                                         *)
(* Text is modelled line by line: a string is the sequence of its lines    *)
(* (joined by "\n"), the empty string is the empty sequence, and a line is *)
(* a record whose field t says what the regular expressions of the code    *)
(* can see of it.                                                          *)
(***************************************************************************)
EXTENDS Integers, Sequences, FiniteSets, TLC

\* ------------------------------------------------------------------ bounds
\* largest maxSteps a run is configured with
MaxStepsBound == 2
\* largest number of tool invocations in one LLM response
MaxCallsPerResponse == 2
\* largest of the small line numbers a direct call is tried with
MaxLineArg == 4
\* longest list of sources verifySources is tried with
MaxSources == 2
\* largest id the AUTOINCREMENT sequence of the table files reaches
MaxRowId == 4

\* ------------------------------------------------------------ option values
\* a TypeScript `T | undefined`
Undefined == [set |-> FALSE]
Some(v) == [set |-> TRUE, v |-> v]
\* JavaScript truthiness of a `string | undefined` (undefined and '' are falsy),
\* for a short string kept as a TLA+ string and for a text kept as lines
TruthyStr(o) == o.set /\ o.v # ""
TruthyText(o) == o.set /\ o.v # <<>>

\* -------------------------------------------------------------------- lines
DoneLine == [t |-> "DONE"]
BlankLine == [t |-> "blank"]
TextLine == [t |-> "text"]
SourcesHeader == [t |-> "## Sources"]
OtherHeader == [t |-> "## Other"]
NoSourcesLine == [t |-> "(No verified sources available)"]
CiteLine(p, s, e) == [t |-> "cite", path |-> p, startLine |-> s, endLine |-> e]

HasBacktick(line) == line.t = "cite"
StartsWithHashes(line) == line.t \in {"## Sources", "## Other"}

\* the repository on disk: path -> number of lines and characters per line
RepoFiles == [p \in {"foo.ts", "big.ts", "long.ts", "src/util.ts", ".git/config"} |->
                 IF p = "foo.ts" THEN [lines |-> 3, lineChars |-> 10]
                 ELSE IF p = "big.ts" THEN [lines |-> 2, lineChars |-> 4100]
                 ELSE IF p = "long.ts" THEN [lines |-> 130, lineChars |-> 10]
                 ELSE [lines |-> 2, lineChars |-> 10]]

\* String.prototype.trim on a multi-line string: leading and trailing
\* whitespace-only lines go
RECURSIVE TrimStart(_)
TrimStart(s) == IF s = <<>> THEN <<>>
                ELSE IF Head(s) = BlankLine THEN TrimStart(Tail(s)) ELSE s
RECURSIVE TrimEnd(_)
TrimEnd(s) == IF s = <<>> THEN <<>>
              ELSE IF s[Len(s)] = BlankLine THEN TrimEnd(SubSeq(s, 1, Len(s) - 1)) ELSE s
Trim(s) == TrimEnd(TrimStart(s))

\* ------------------------------------------------------------ parseResponse
\* /^DONE\s*\n([\s\S]*)/i : the first line is the marker and a newline follows
DoneMatch(content) == Len(content) >= 2 /\ content[1] = DoneLine

parseResponse(content, toolCalls) ==
    IF Len(toolCalls) > 0
    THEN [type |-> "tool_calls", toolCalls |-> toolCalls, rawContent |-> content]
    ELSE IF content # <<>> /\ DoneMatch(content)
    THEN [type |-> "done", answerMd |-> Trim(Tail(content)), rawContent |-> content]
    ELSE IF content # <<>>
            /\ (\E i \in 1..Len(content) : content[i] = SourcesHeader)
            /\ (\E i \in 1..Len(content) : HasBacktick(content[i]))
    THEN [type |-> "done", answerMd |-> content, rawContent |-> content]
    ELSE [type |-> "error", rawContent |-> content,
          error |-> "LLM response was neither a tool call nor a valid DONE answer"]

\* ---------------------------------------------------- verifySourcesInAnswer
\* /##\s*Sources\s*\n([\s\S]*?)(?:\n##|$)/i : the first header line that is
\* followed by a newline; 0 when there is none
SourcesMatch(md) ==
    LET hs == {i \in 1..Len(md) : md[i] = SourcesHeader /\ i < Len(md)}
    IN IF hs = {} THEN 0 ELSE CHOOSE i \in hs : \A j \in hs : i <= j

\* the captured group: the greedy \s*\n swallows the blank lines after the
\* header, the lazy body stops before the next line that begins with ##
SourcesSection(md) ==
    LET h == SourcesMatch(md)
        nb == {i \in (h + 1)..Len(md) : md[i] # BlankLine}
        first == IF nb = {} THEN Len(md) + 1 ELSE CHOOSE i \in nb : \A j \in nb : i <= j
        stops == {i \in (first + 1)..Len(md) : StartsWithHashes(md[i])}
        last == IF stops = {} THEN Len(md) ELSE (CHOOSE i \in stops : \A j \in stops : i <= j) - 1
    IN SubSeq(md, first, last)

InvalidRangeError(c) == [k |-> "Invalid line range", path |-> c.path,
                         startLine |-> c.startLine, endLine |-> c.endLine]
MissingSectionError == [k |-> "Missing \"## Sources\" section in answer"]
NoValidSourcesError == [k |-> "No valid sources found"]

\* a loop that leaves at the first invalid range instead of going on
ScanSourcesUntilInvalid(section, acc) ==
    LET bad == {i \in 1..Len(section) :
                   /\ section[i].t = "cite"
                   /\ section[i].startLine < 1 \/ section[i].endLine < section[i].startLine}
        stop == IF bad = {} THEN Len(section) + 1 ELSE CHOOSE i \in bad : \A j \in bad : i <= j
        good == SelectSeq(SubSeq(section, 1, stop - 1), LAMBDA l : l.t = "cite")
    IN [foundAny |-> acc.foundAny \/ good # <<>> \/ bad # {},
        sources |-> acc.sources \o [i \in 1..Len(good) |->
                       [path |-> good[i].path, startLine |-> good[i].startLine,
                        endLine |-> good[i].endLine]],
        errors |-> IF bad = {} THEN acc.errors
                   ELSE Append(acc.errors,
                               InvalidRangeError([path |-> section[stop].path,
                                                  startLine |-> section[stop].startLine,
                                                  endLine |-> section[stop].endLine]))]
\* the while loop over sourcePattern.exec: acc is [sources, errors, foundAny]
RECURSIVE ScanSources(_, _)
ScanSources(section, acc) ==
    IF section = <<>> THEN acc
    ELSE LET l == Head(section)
             c == [path |-> l.path, startLine |-> l.startLine, endLine |-> l.endLine]
         IN IF l.t # "cite" THEN ScanSources(Tail(section), acc)
            ELSE IF l.startLine < 1 \/ l.endLine < l.startLine
            THEN ScanSources(Tail(section),
                     [acc EXCEPT !.foundAny = TRUE,
                                 !.errors = Append(@, InvalidRangeError(c))])
            ELSE ScanSources(Tail(section),
                     [acc EXCEPT !.foundAny = TRUE, !.sources = Append(@, c)])

\* a verdict that looks at the sources only
VerdictIgnoringErrors(errors, sources) == Len(sources) > 0
\* `valid: errors.length === 0 && sources.length > 0`
Verdict(errors, sources) == errors = <<>> /\ Len(sources) > 0

verifySourcesInAnswer(answerMd) ==
    IF SourcesMatch(answerMd) = 0
    THEN [valid |-> FALSE, sources |-> <<>>, errors |-> <<MissingSectionError>>]
    ELSE LET r == ScanSources(SourcesSection(answerMd),
                              [sources |-> <<>>, errors |-> <<>>, foundAny |-> FALSE])
             errors == IF r.foundAny THEN r.errors ELSE Append(r.errors, NoValidSourcesError)
         IN [valid |-> Verdict(errors, r.sources),
             sources |-> r.sources, errors |-> errors]

\* ------------------------------------------------------------ truncateOutput
\* length of String.prototype.slice(start, end) on a string of length len
SliceIndex(len, i) == IF i < 0 THEN (IF len + i < 0 THEN 0 ELSE len + i)
                      ELSE (IF i > len THEN len ELSE i)
SliceLen(len, start, end) ==
    LET a == SliceIndex(len, start)
        b == SliceIndex(len, end)
    IN IF b > a THEN b - a ELSE 0

RECURSIVE Digits(_)
Digits(n) == IF n < 10 THEN 1 ELSE 1 + Digits(n \div 10)

\* a tool output is kept as what it says (k, ...) and how long it is (len)
truncateOutput(output, maxChars) ==
    IF output.len <= maxChars THEN output
    ELSE LET halfLimit == (maxChars \div 2) - 50
             head == SliceLen(output.len, 0, halfLimit)
             \* slice(-0) is slice(0): the whole string
             tail == SliceLen(output.len, -halfLimit, output.len)
             marker == Len("\n\n... [") + Digits(output.len - maxChars)
                         + Len(" characters truncated] ...\n\n")
         IN [k |-> "truncated", of |-> output.k, len |-> head + marker + tail]

\* ------------------------------------------------------------- JSON values
\* a JSON string, an integer number, a number with a fractional part
Str(s) == [ty |-> "string", v |-> s]
Num(n) == [ty |-> "number", int |-> TRUE, v |-> n]
Fraction == [ty |-> "number", int |-> FALSE]

\* argumentsJson of an invocation: text that JSON.parse rejects, an object
\* with the given fields, or JSON that is not an object (null)
NotJson == [json |-> FALSE]
ArgsObject(fields) == [json |-> TRUE, object |-> TRUE, fields |-> fields]
JsonNull == [json |-> TRUE, object |-> FALSE]
ExcerptArgs(p, s, e) ==
    ArgsObject([path |-> Str(p), startLine |-> Num(s), endLine |-> Num(e)])

\* ------------------------------------------------------------ the schemas
\* z.string().min(1), z.number().int().min(lo).max(hi), and .default(d)
Has(f, k) == k \in DOMAIN f
IsStringMin1(f, k) == Has(f, k) /\ f[k].ty = "string" /\ f[k].v # ""
\* a minimum that lets the number just below it through
IsIntMinLoose(f, k, lo) ==
    Has(f, k) /\ f[k].ty = "number" /\ f[k].int /\ f[k].v >= lo - 1
IsIntMin(f, k, lo) == Has(f, k) /\ f[k].ty = "number" /\ f[k].int /\ f[k].v >= lo
IsIntIn(f, k, lo, hi) == IsIntMin(f, k, lo) /\ f[k].v <= hi
OptionalIntIn(f, k, lo, hi) == ~Has(f, k) \/ IsIntIn(f, k, lo, hi)
\* an omitted field that is filled with 0 whatever its default is
WithZero(f, k, d) == IF Has(f, k) THEN f[k].v ELSE 0
WithDefault(f, k, d) == IF Has(f, k) THEN f[k].v ELSE d

\* safeParse: success with the parsed data, or the paths of the issues
Valid(data) == [success |-> TRUE, data |-> data]
Invalid(paths) == [success |-> FALSE, errors |-> paths]
RECURSIVE Issues(_)
Issues(checks) ==
    IF checks = <<>> THEN <<>>
    ELSE (IF Head(checks).ok THEN <<>> ELSE <<Head(checks).path>>) \o Issues(Tail(checks))

SearchChunksArgsSchema(args) ==
    IF ~args.object THEN Invalid(<<"">>)
    ELSE LET f == args.fields
             issues == Issues(<<[path |-> "query", ok |-> IsStringMin1(f, "query")],
                                [path |-> "topK", ok |-> OptionalIntIn(f, "topK", 1, 50)]>>)
         IN IF issues # <<>> THEN Invalid(issues)
            ELSE Valid([query |-> f.query.v, topK |-> WithDefault(f, "topK", 10)])

GetExcerptArgsSchema(args) ==
    IF ~args.object THEN Invalid(<<"">>)
    ELSE LET f == args.fields
             issues == Issues(<<[path |-> "path", ok |-> IsStringMin1(f, "path")],
                                [path |-> "startLine", ok |-> IsIntMin(f, "startLine", 1)],
                                [path |-> "endLine", ok |-> IsIntMin(f, "endLine", 1)]>>)
         IN IF issues # <<>> THEN Invalid(issues)
            ELSE Valid([path |-> f.path.v, startLine |-> f.startLine.v,
                        endLine |-> f.endLine.v])

GraphNeighborsArgsSchema(args) ==
    IF ~args.object THEN Invalid(<<"">>)
    ELSE LET f == args.fields
             issues == Issues(<<[path |-> "nodeId", ok |-> IsStringMin1(f, "nodeId")],
                                [path |-> "depth", ok |-> OptionalIntIn(f, "depth", 1, 5)]>>)
         IN IF issues # <<>> THEN Invalid(issues)
            ELSE Valid([nodeId |-> f.nodeId.v, depth |-> WithDefault(f, "depth", 1)])

ListFilesArgsSchema(args) ==
    IF ~args.object THEN Invalid(<<"">>)
    ELSE LET f == args.fields
             issues == Issues(<<[path |-> "glob", ok |-> IsStringMin1(f, "glob")],
                                [path |-> "limit", ok |-> OptionalIntIn(f, "limit", 1, 1000)]>>)
         IN IF issues # <<>> THEN Invalid(issues)
            ELSE Valid([glob |-> f.glob.v, limit |-> WithDefault(f, "limit", 100)])

\* z.object({}): any object, its keys stripped
GetRepoSummaryArgsSchema(args) ==
    IF ~args.object THEN Invalid(<<"">>) ELSE Valid(<<>>)

Min(a, b) == IF a < b THEN a ELSE b
Max(a, b) == IF a > b THEN a ELSE b

\* length of lines a..b of a file as getExcerpt numbers and joins them: each
\* line `${n}: ${line}`, '\n' between two lines. A number n has one digit
\* for every power of ten 10^(k-1) <= n, so the digits of a..b are counted
\* per power of ten.
DigitsOfRange(a, b) ==
    LET from(k) == Max(a, 10 ^ (k - 1))
        count(k) == Max(0, b - from(k) + 1)
    IN count(1) + count(2) + count(3) + count(4) + count(5) + count(6)
NumberedLen(a, b, lineChars) ==
    IF a > b THEN 0
    ELSE DigitsOfRange(a, b) + (b - a + 1) * (Len(": ") + lineChars) + (b - a)

\* ------------------------------------------------------------------- paths
\* a path is the string the code holds; node:path works on its segments
RECURSIVE SplitFrom(_, _, _)
SplitFrom(s, i, cur) ==
    IF i > Len(s) THEN <<cur>>
    ELSE IF SubSeq(s, i, i) = "/" THEN <<cur>> \o SplitFrom(s, i + 1, "")
    ELSE SplitFrom(s, i + 1, cur \o SubSeq(s, i, i))
Split(s) == SplitFrom(s, 1, "")

\* normalization of the segments of an absolute path: '' and '.' go, '..'
\* takes the segment before it along (and is dropped at the root)
RECURSIVE Normalize(_, _)
Normalize(segs, acc) ==
    IF segs = <<>> THEN acc
    ELSE IF Head(segs) \in {"", "."} THEN Normalize(Tail(segs), acc)
    ELSE IF Head(segs) = ".."
    THEN Normalize(Tail(segs), IF acc = <<>> THEN <<>> ELSE SubSeq(acc, 1, Len(acc) - 1))
    ELSE Normalize(Tail(segs), Append(acc, Head(segs)))

RECURSIVE JoinSegs(_)
JoinSegs(segs) == IF segs = <<>> THEN ""
                  ELSE IF Len(segs) = 1 THEN Head(segs)
                  ELSE Head(segs) \o "/" \o JoinSegs(Tail(segs))
ToPath(segs) == "/" \o JoinSegs(segs)

StartsWith(s, prefix) == Len(s) >= Len(prefix) /\ SubSeq(s, 1, Len(prefix)) = prefix

\* path.join(a, b), path.resolve(p), path.resolve(dir, p), path.dirname(p),
\* path.basename(p) and path.relative(from, to), for absolute a, p, dir,
\* from and to
join(a, b) == ToPath(Normalize(Split(a) \o Split(b), <<>>))
resolve(p) == ToPath(Normalize(Split(p), <<>>))
resolveFrom(dir, p) == IF StartsWith(p, "/") THEN resolve(p) ELSE join(dir, p)
dirname(p) == LET segs == Normalize(Split(p), <<>>)
              IN ToPath(IF segs = <<>> THEN <<>> ELSE SubSeq(segs, 1, Len(segs) - 1))
basename(p) == LET segs == Normalize(Split(p), <<>>)
               IN IF segs = <<>> THEN "" ELSE segs[Len(segs)]
RECURSIVE CommonLen(_, _)
CommonLen(a, b) == IF a = <<>> \/ b = <<>> \/ Head(a) # Head(b) THEN 0
                   ELSE 1 + CommonLen(Tail(a), Tail(b))
relative(from, to) ==
    LET f == Normalize(Split(from), <<>>)
        t == Normalize(Split(to), <<>>)
        c == CommonLen(f, t)
    IN JoinSegs([i \in 1..(Len(f) - c) |-> ".."] \o SubSeq(t, c + 1, Len(t)))

\* the path names a file or a directory under the directory dir
Under(dir, p) ==
    LET d == Normalize(Split(dir), <<>>)
        q == Normalize(Split(p), <<>>)
    IN Len(q) > Len(d) /\ SubSeq(q, 1, Len(d)) = d

\* ---------------------------------------------------------------- the disk
\* config.repoRoot of the run
repoPath == "/tmp/repo"
\* files that are not under the repository
OutsideFiles == [p \in {"/tmp/repo-evil/secret.ts", "/etc/passwd"} |->
                    [lines |-> 2, lineChars |-> 10]]
\* every file of the machine, in the order a directory walk meets them
DiskListing == <<"/etc/passwd", "/tmp/repo/.git/config", "/tmp/repo/big.ts",
                 "/tmp/repo/foo.ts", "/tmp/repo/long.ts", "/tmp/repo/src/util.ts",
                 "/tmp/repo-evil/secret.ts">>
Disk == [p \in {DiskListing[i] : i \in 1..Len(DiskListing)} |->
            IF p \in DOMAIN OutsideFiles THEN OutsideFiles[p]
            ELSE RepoFiles[relative(repoPath, p)]]
\* the module specifiers of the import statements of a file
ImportsOf(p) == IF p = "/tmp/repo/foo.ts"
                THEN <<"zod", "./big.ts", "../repo-evil/secret.ts">>
                ELSE <<>>

isFile(p) == resolve(p) \in DOMAIN Disk
isDirectory(p) == \E f \in DOMAIN Disk : Under(p, f)
existsSync(p) == isFile(p) \/ isDirectory(p)
\* readFileSync(p).split('\n').length
lineCount(p) == Disk[resolve(p)].lines

\* ------------------------------------------------------------ the handlers
\* A ToolResult is [success, data, outputSummary, error (when it failed)];
\* reads is the set of files the handler passed to readFileSync.
TextSummary(text) == [k |-> text, len |-> Len(text)]

\* a clamp that leaves the end line as requested
safeEndUnclamped(start, endLine, totalLines) == Max(start, endLine)
\* `Math.max(1, Math.min(startLine, totalLines))` and
\* `Math.max(safeStart, Math.min(endLine, totalLines))`
safeStart(startLine, totalLines) == Max(1, Min(startLine, totalLines))
safeEnd(start, endLine, totalLines) == Max(start, Min(endLine, totalLines))

getExcerpt(args, context) ==
    LET fullPath == join(context.repoPath, args.path)
        resolvedPath == resolve(fullPath)
        none == [path |-> args.path, startLine |-> args.startLine,
                 endLine |-> args.endLine, numbers |-> <<>>, totalLines |-> 0]
    IN IF ~StartsWith(resolvedPath, resolve(context.repoPath))
       THEN [success |-> FALSE, data |-> none, reads |-> {},
             error |-> "Path outside repository",
             outputSummary |-> TextSummary("Access denied: path outside repository")]
       ELSE IF ~existsSync(fullPath)
       THEN [success |-> FALSE, data |-> none, reads |-> {},
             error |-> "File not found",
             outputSummary |-> [k |-> "File not found", path |-> args.path,
                                len |-> Len("File not found: ") + Len(args.path)]]
       ELSE IF ~isFile(fullPath)
       THEN [success |-> FALSE, data |-> none, reads |-> {},
             error |-> "EISDIR: illegal operation on a directory, read",
             outputSummary |-> [k |-> "Failed to read excerpt",
                                len |-> Len("Failed to read excerpt: ")
                                        + Len("EISDIR: illegal operation on a directory, read")]]
       ELSE LET totalLines == lineCount(fullPath)
                a == safeStart(args.startLine, totalLines)
                b == safeEnd(a, args.endLine, totalLines)
                \* lines.slice(a - 1, b), each prefixed with a + i
                numbers == [i \in 1..SliceLen(totalLines, a - 1, b) |-> a + i - 1]
            IN [success |-> TRUE, reads |-> {resolvedPath},
                data |-> [path |-> args.path, startLine |-> a, endLine |-> b,
                          numbers |-> numbers, totalLines |-> totalLines],
                outputSummary |->
                   [k |-> "File", path |-> args.path, startLine |-> a,
                    endLine |-> b, totalLines |-> totalLines,
                    len |-> Len("File: ") + Len(args.path) + Len(" (lines ")
                            + Digits(a) + 1 + Digits(b) + Len(" of ")
                            + Digits(totalLines) + Len(")\n\n")
                            + (IF numbers = <<>> THEN 0
                               ELSE NumberedLen(numbers[1], numbers[Len(numbers)],
                                                Disk[resolvedPath].lineChars))]]

\* one GraphNeighbor per import statement of the file
Neighbor(importPath, fullPath, context) ==
    IF ~StartsWith(importPath, ".")
    THEN [id |-> importPath, type |-> "module", name |-> importPath]
    ELSE LET resolvedImport == resolveFrom(dirname(fullPath), importPath)
             relativePath == relative(context.repoPath, resolvedImport)
         IN [id |-> relativePath, type |-> "file", name |-> basename(relativePath)]

RECURSIVE NeighborLinesLen(_)
NeighborLinesLen(ns) ==
    IF ns = <<>> THEN 0
    ELSE Len("- imports > ") + Len(Head(ns).name) + Len(" (") + Len(Head(ns).type)
         + Len(")") + (IF Tail(ns) = <<>> THEN 0 ELSE 1 + NeighborLinesLen(Tail(ns)))

graphNeighbors(args, context) ==
    LET fullPath == join(context.repoPath, args.nodeId)
        read == existsSync(fullPath) /\ isFile(fullPath)
        imports == IF read THEN ImportsOf(fullPath) ELSE <<>>
        neighbors == [i \in 1..Len(imports) |-> Neighbor(imports[i], fullPath, context)]
    IN [success |-> TRUE, data |-> neighbors,
        reads |-> IF read THEN {fullPath} ELSE {},
        outputSummary |->
           IF Len(neighbors) > 0
           THEN [k |-> "Found neighbors", nodeId |-> args.nodeId, depth |-> args.depth,
                 len |-> Len("Found ") + Digits(Len(neighbors)) + Len(" neighbors for \"")
                         + Len(args.nodeId) + Len("\" (depth: ") + Digits(args.depth)
                         + Len("):\n") + NeighborLinesLen(neighbors)]
           ELSE [k |-> "No graph data available", nodeId |-> args.nodeId,
                 len |-> Len("No graph data available for: \"") + Len(args.nodeId) + 1]]

\* -------------------------------------------------------------- characters
At(s, i) == IF 1 <= i /\ i <= Len(s) THEN SubSeq(s, i, i) ELSE ""
\* the backquote character, which a TLA+ string cannot hold: the texts of the
\* model have an apostrophe in its place
Backtick == "'"
IsSpace(c) == c \in {" ", "\n", "\t", "\r"}
IsDigit(c) == c \in {"0", "1", "2", "3", "4", "5", "6", "7", "8", "9"}
UpperCase == "ABCDEFGHIJKLMNOPQRSTUVWXYZ"
LowerCase == "abcdefghijklmnopqrstuvwxyz"
\* the lower-case letter of each upper-case letter
LowerOf ==
    [c \in {At(UpperCase, i) : i \in 1..Len(UpperCase)} |->
        At(LowerCase, CHOOSE i \in 1..Len(UpperCase) : At(UpperCase, i) = c)]
LowerChar(c) == IF c \in DOMAIN LowerOf THEN LowerOf[c] ELSE c
RECURSIVE ToLower(_)
ToLower(s) == IF s = "" THEN "" ELSE LowerChar(At(s, 1)) \o ToLower(SubSeq(s, 2, Len(s)))

\* the index after \s* read from index i
RECURSIVE SkipSpaces(_, _)
SkipSpaces(s, i) == IF IsSpace(At(s, i)) THEN SkipSpaces(s, i + 1) ELSE i

\* --------------------------------------------------------------- the index
\* the rows of the table files: path and content, the content as the lines
\* content.split('\n') gives
LongContent == [i \in 1..130 |-> IF i = 40 THEN "// beta"
                                 ELSE IF i = 100 THEN "let beta = gamma" ELSE "pad"]
IndexRows == <<[id |-> 1, path |-> "big.ts", content |-> <<"const Alpha = 1", "">>],
               [id |-> 2, path |-> "foo.ts",
                content |-> <<"import x", "const Alpha = beta", "export ALPHA">>],
               [id |-> 3, path |-> "long.ts", content |-> LongContent]>>
\* the entry the trigger files_ai adds to files_fts for a row
FtsEntry(row) == [rowid |-> row.id, path |-> row.path, content |-> row.content]
IndexFts == [i \in 1..Len(IndexRows) |-> FtsEntry(IndexRows[i])]

\* query.replace(/['"]/g, '').split(/\s+/).filter(term => term.length > 0)
RECURSIVE TermsFrom(_, _, _)
TermsFrom(q, i, cur) ==
    IF i > Len(q) THEN (IF cur = "" THEN <<>> ELSE <<cur>>)
    ELSE IF SubSeq(q, i, i) \in {"'", "\""} THEN TermsFrom(q, i + 1, cur)
    ELSE IF SubSeq(q, i, i) \in {" ", "\t", "\n", "\r"}
    THEN (IF cur = "" THEN <<>> ELSE <<cur>>) \o TermsFrom(q, i + 1, "")
    ELSE TermsFrom(q, i + 1, cur \o SubSeq(q, i, i))

\* the tokens the full-text index makes of a text: the runs of letters and
\* digits, case-folded
Letters == {At(LowerCase, i) : i \in 1..Len(LowerCase)}
IsAlnum(c) == IsDigit(c) \/ LowerChar(c) \in Letters
RECURSIVE TokensFrom(_, _, _)
TokensFrom(s, i, cur) ==
    IF i > Len(s) THEN (IF cur = "" THEN <<>> ELSE <<cur>>)
    ELSE IF IsAlnum(At(s, i)) THEN TokensFrom(s, i + 1, cur \o LowerChar(At(s, i)))
    ELSE (IF cur = "" THEN <<>> ELSE <<cur>>) \o TokensFrom(s, i + 1, "")
Tokens(s) == TokensFrom(s, 1, "")
RECURSIVE ContentTokens(_, _, _)
ContentTokens(lines, lo, hi) ==
    IF lo > hi THEN <<>>
    ELSE IF lo = hi THEN Tokens(lines[lo])
    ELSE ContentTokens(lines, lo, (lo + hi) \div 2)
         \o ContentTokens(lines, (lo + hi) \div 2 + 1, hi)

\* files_fts MATCH '"term" OR ...': the tokens of a term stand next to each
\* other in the column path or in the column content
PhraseIn(phrase, tokens) ==
    /\ phrase # <<>>
    /\ \E k \in 1..(Len(tokens) - Len(phrase) + 1) :
          SubSeq(tokens, k, k + Len(phrase) - 1) = phrase
Match(row, terms) ==
    \E i \in 1..Len(terms) :
        \/ PhraseIn(Tokens(terms[i]), Tokens(row.path))
        \/ PhraseIn(Tokens(terms[i]), ContentTokens(row.content, 1, Len(row.content)))

\* String.prototype.split(/\s+/): the pieces between the runs of whitespace,
\* an empty piece before a leading and after a trailing run
RECURSIVE SplitSpaces(_, _, _)
SplitSpaces(s, i, cur) ==
    IF i > Len(s) THEN <<cur>>
    ELSE IF IsSpace(At(s, i)) THEN <<cur>> \o SplitSpaces(s, SkipSpaces(s, i), "")
    ELSE SplitSpaces(s, i + 1, cur \o At(s, i))
\* String.prototype.includes
includes(s, part) ==
    \E k \in 1..(Len(s) - Len(part) + 1) : SubSeq(s, k, k + Len(part) - 1) = part

\* findBestMatchLine: score of a line, and the loop over the lines, which
\* keeps the line it has unless a later one scores strictly more; the loop is
\* folded over the halves of the range
Score(line, queryTerms) ==
    Cardinality({j \in 1..Len(queryTerms) : includes(ToLower(line), queryTerms[j])})
KeepBest(kept, later) == IF later.bestScore > kept.bestScore THEN later ELSE kept
RECURSIVE BestOf(_, _, _, _)
BestOf(lines, queryTerms, lo, hi) ==
    IF lo = hi THEN [bestLine |-> lo, bestScore |-> Score(lines[lo], queryTerms)]
    ELSE KeepBest(BestOf(lines, queryTerms, lo, (lo + hi) \div 2),
                  BestOf(lines, queryTerms, (lo + hi) \div 2 + 1, hi))
findBestMatchLine(lines, query) ==
    LET queryTerms == SplitSpaces(ToLower(query), 1, "")
    IN KeepBest([bestLine |-> 1, bestScore |-> 0],
                BestOf(lines, queryTerms, 1, Len(lines))).bestLine

\* LIMIT ?: the first n rows, and every row when n is negative
Limit(rows, n) == IF n < 0 THEN rows ELSE SubSeq(rows, 1, Min(n, Len(rows)))
\* FROM files_fts fts JOIN files f ON fts.rowid = f.id WHERE files_fts MATCH ?
RECURSIVE Join(_, _, _)
Join(fts, table, terms) ==
    IF fts = <<>> THEN <<>>
    ELSE (IF Match(Head(fts), terms)
          THEN SelectSeq(table, LAMBDA f : f.id = Head(fts).rowid) ELSE <<>>)
         \o Join(Tail(fts), table, terms)
\* a search that takes path and content from the entries of files_fts
searchFtsOnly(table, fts, query, topK) ==
    LET terms == TermsFrom(query, 1, "")
        results == Limit(SelectSeq(fts, LAMBDA entry : Match(entry, terms)), topK)
    IN IF terms = <<>> THEN <<>>
       ELSE [i \in 1..Len(results) |->
                [path |-> results[i].path, startLine |-> 1,
                 endLine |-> Len(results[i].content), snippet |-> results[i].content]]
\* Indexer.search on the table files and its index files_fts: the rows that
\* join an entry matching one of the terms, at most topK of them (in the
\* order of the index: bm25 is not modelled), each with the lines around its
\* best line
searchRows(table, fts, query, topK) ==
    LET terms == TermsFrom(query, 1, "")
        results == Limit(Join(fts, table, terms), topK)
    IN IF terms = <<>> THEN <<>>
       ELSE [i \in 1..Len(results) |->
                LET lines == results[i].content
                    matchIndex == findBestMatchLine(lines, query)
                    startLine == Max(1, matchIndex - 5)
                    endLine == Min(Len(lines), matchIndex + 15)
                IN [path |-> results[i].path, startLine |-> startLine,
                    endLine |-> endLine, snippet |-> SubSeq(lines, startLine, endLine)]]
search(query, topK) == searchRows(IndexRows, IndexFts, query, topK)

\* ------------------------------------------------------------ indexRepository
IGNORED_DIRS == {"node_modules", ".git", "dist", ".next", ".nuxt", "coverage",
                 "__pycache__", ".venv", "venv"}
INDEXED_EXTENSIONS == {".ts", ".tsx", ".js", ".jsx", ".py", ".rs", ".go", ".java", ".c",
                       ".cpp", ".h", ".hpp", ".md", ".json", ".yaml", ".yml", ".toml"}
\* path.extname: from the last dot of the name on, '' without one
extname(name) ==
    LET dots == {i \in 2..Len(name) : At(name, i) = "."}
    IN IF dots = {} THEN ""
       ELSE SubSeq(name, CHOOSE i \in dots : \A j \in dots : j <= i, Len(name))

\* A working tree is a record: dirs, the readable flag of each directory
\* under the root by its name, and files, the files by <<dir, name>> with their
\* text and readable flag; a directory is "" for the root.
\* the order in which readdirSync lists the files a tree can hold
TreeOrder == << <<".git", "hook.ts">>, <<"", "a.ts">>, <<"", "notes.txt">>,
                <<"src", "b.ts">> >>
\* walkDirectory: the files of the root and of each directory entered that
\* have an indexed extension; readdirSync throws for a directory that cannot
\* be read
Entered(tree) ==
    {d \in DOMAIN tree.dirs : d \notin IGNORED_DIRS /\ At(d, 1) # "."}
walkDirectory(tree) ==
    IF \E d \in Entered(tree) : ~tree.dirs[d]
    THEN [threw |-> TRUE]
    ELSE [threw |-> FALSE,
          files |-> SelectSeq(TreeOrder,
                       LAMBDA f : /\ f \in DOMAIN tree.files
                                  /\ f[1] = "" \/ f[1] \in Entered(tree)
                                  /\ ToLower(extname(f[2])) \in INDEXED_EXTENSIONS)]

\* INSERT OR REPLACE INTO files: the row of the same path is deleted, which
\* fires the trigger files_ad only when recursive triggers are on, and the
\* new row gets the next id of the AUTOINCREMENT sequence and fires files_ai
InsertOrReplace(db, relativePath, content) ==
    LET old == {i \in 1..Len(db.files) : db.files[i].path = relativePath}
        oldIds == {db.files[i].id : i \in old}
        row == [id |-> db.sqlite_sequence + 1, path |-> relativePath, content |-> content]
    IN [db EXCEPT
          !.files = Append(SelectSeq(@, LAMBDA f : f.path # relativePath), row),
          !.files_fts = Append(IF db.recursive_triggers
                               THEN SelectSeq(@, LAMBDA e : e.rowid \notin oldIds)
                               ELSE @, FtsEntry(row)),
          !.sqlite_sequence = @ + 1]

\* the transaction of indexRepository over the files of the walk, in order
RelativePath(f) == IF f[1] = "" THEN f[2] ELSE f[1] \o "/" \o f[2]
RECURSIVE IndexFiles(_, _, _)
IndexFiles(list, tree, acc) ==
    IF list = <<>> THEN acc
    ELSE LET f == Head(list)
         IN IndexFiles(Tail(list), tree,
               IF tree.files[f].readable
               THEN [db |-> InsertOrReplace(acc.db, RelativePath(f), <<tree.files[f].text>>),
                     indexed |-> acc.indexed + 1, skipped |-> acc.skipped]
               ELSE [acc EXCEPT !.skipped = @ + 1])
indexRepository(db, tree) ==
    LET walk == walkDirectory(tree)
    IN IF walk.threw THEN [threw |-> TRUE, db |-> db]
       ELSE [threw |-> FALSE]
            @@ IndexFiles(walk.files, tree, [db |-> db, indexed |-> 0, skipped |-> 0])

\* `if (!sanitizedQuery) return []` is passed and the MATCH statement runs
matchIssued(query) == TermsFrom(query, 1, "") # <<>>

RECURSIVE ChunkLinesLen(_, _)
ChunkLinesLen(results, i) ==
    IF i > Len(results) THEN 0
    ELSE Len("[") + Digits(i) + Len("] ") + Len(results[i].path) + 1
         + Digits(results[i].startLine) + 1 + Digits(results[i].endLine)
         + Len(" (score: 0.000)")
         + (IF i < Len(results) THEN 1 + ChunkLinesLen(results, i + 1) ELSE 0)

\* a search that reports a failure when it finds nothing
searchChunksFailingWhenEmpty(args, context) ==
    LET results == IF context.indexer.search THEN search(args.query, args.topK) ELSE <<>>
    IN [success |-> Len(results) > 0, data |-> results, reads |-> {},
        queried |-> context.indexer.search /\ matchIssued(args.query),
        outputSummary |-> [k |-> "No chunks found", query |-> args.query,
                           len |-> Len("No chunks found for query: \"") + Len(args.query) + 1]]
\* queried: Indexer.search ran its MATCH statement on the database
searchChunks(args, context) ==
    IF ~context.indexer.search
    THEN [success |-> TRUE, data |-> <<>>, reads |-> {}, queried |-> FALSE,
          outputSummary |->
             TextSummary("No indexer available. Please run 'repo-wiki index' first.")]
    ELSE LET results == search(args.query, args.topK)
         IN [success |-> TRUE, data |-> results, reads |-> {},
             queried |-> matchIssued(args.query),
             outputSummary |->
                IF Len(results) > 0
                THEN [k |-> "Found chunks", query |-> args.query, results |-> results,
                      len |-> Len("Found ") + Digits(Len(results))
                              + Len(" chunks matching \"") + Len(args.query)
                              + Len("\":\n") + ChunkLinesLen(results, 1)]
                ELSE [k |-> "No chunks found", query |-> args.query,
                      len |-> Len("No chunks found for query: \"") + Len(args.query) + 1]]

\* ---------------------------------------------------------------- the walk
\* the regular expression matchGlob builds: ** is .*, * is [^/]*, ? is .
RECURSIVE GlobMatches(_, _, _, _)
GlobMatches(f, i, g, j) ==
    IF j > Len(g) THEN i > Len(f)
    ELSE IF j < Len(g) /\ SubSeq(g, j, j + 1) = "**"
    THEN \E k \in i..(Len(f) + 1) : GlobMatches(f, k, g, j + 2)
    ELSE IF SubSeq(g, j, j) = "*"
    THEN \E k \in i..(Len(f) + 1) :
            /\ \A m \in i..(k - 1) : SubSeq(f, m, m) # "/"
            /\ GlobMatches(f, k, g, j + 1)
    ELSE IF SubSeq(g, j, j) = "?"
    THEN i <= Len(f) /\ GlobMatches(f, i + 1, g, j + 1)
    ELSE i <= Len(f) /\ SubSeq(f, i, i) = SubSeq(g, j, j)
         /\ GlobMatches(f, i + 1, g, j + 1)
matchGlob(filepath, pattern) == GlobMatches(filepath, 1, pattern, 1)

\* the files walkDir meets under the root, by their relative paths: hidden
\* entries and node_modules are skipped
Skipped(rel) ==
    \E i \in 1..Len(Split(rel)) :
        StartsWith(Split(rel)[i], ".") \/ Split(rel)[i] = "node_modules"
Walk(root) ==
    LET under == SelectSeq(DiskListing, LAMBDA p : Under(root, p))
        rels == [i \in 1..Len(under) |-> relative(root, under[i])]
    IN SelectSeq(rels, LAMBDA r : ~Skipped(r))

RECURSIVE LinesLen(_)
LinesLen(paths) ==
    IF paths = <<>> THEN 0
    ELSE Len(Head(paths)) + (IF Tail(paths) = <<>> THEN 0 ELSE 1 + LinesLen(Tail(paths)))

\* walkDir of listFiles over the entries in the order it meets them: it stops
\* at `files.length >= limit`, otherwise pushes the entry if the glob matches.
\* visited counts the entries it looked at.
CollectUnlimited(rels, pattern, limit, acc) ==
    [files |-> acc.files \o SelectSeq(rels, LAMBDA r : matchGlob(r, pattern)),
     visited |-> acc.visited + Len(rels)]
RECURSIVE Collect(_, _, _, _)
Collect(rels, pattern, limit, acc) ==
    IF rels = <<>> \/ Len(acc.files) >= limit THEN acc
    ELSE Collect(Tail(rels), pattern, limit,
                 [files |-> IF matchGlob(Head(rels), pattern)
                            THEN Append(acc.files, Head(rels)) ELSE acc.files,
                  visited |-> acc.visited + 1])

listFiles(args, context) ==
    LET collected == Collect(Walk(context.repoPath), args.glob, args.limit,
                             [files |-> <<>>, visited |-> 0])
        files == collected.files
        shown == SubSeq(files, 1, Min(20, Len(files)))
    IN [success |-> TRUE, reads |-> {}, visited |-> collected.visited,
        data |-> [i \in 1..Len(files) |-> [path |-> files[i], type |-> "file"]],
        outputSummary |->
           IF Len(files) > 0
           THEN [k |-> "Found files", glob |-> args.glob, files |-> shown,
                 len |-> Len("Found ") + Digits(Len(files)) + Len(" files matching \"")
                         + Len(args.glob) + 1
                         + (IF Len(files) >= args.limit THEN Len(" (limit reached)") ELSE 0)
                         + Len(":\n") + LinesLen(shown)
                         + (IF Len(files) > 20
                            THEN Len("\n... and ") + Digits(Len(files) - 20) + Len(" more")
                            ELSE 0)]
           ELSE [k |-> "No files found", glob |-> args.glob,
                 len |-> Len("No files found matching: \"") + Len(args.glob) + 1]]

\* path.extname(name) is one of the keys of extToLang
KnownExtensions == {".ts", ".tsx", ".js", ".jsx", ".py", ".rs", ".go", ".java",
                    ".md", ".json", ".yaml", ".yml"}
EndsWith(s, suffix) ==
    Len(s) >= Len(suffix) /\ SubSeq(s, Len(s) - Len(suffix) + 1, Len(s)) = suffix
HasKnownExtension(rel) == \E e \in KnownExtensions : EndsWith(rel, e)

RECURSIVE SumLines(_, _)
SumLines(root, rels) ==
    IF rels = <<>> THEN 0
    ELSE lineCount(join(root, Head(rels))) + SumLines(root, Tail(rels))

\* the directories directly under the root, in the order they are met
RECURSIVE TopDirectories(_, _)
TopDirectories(rels, acc) ==
    IF rels = <<>> THEN acc
    ELSE LET segs == Split(Head(rels))
         IN IF Len(segs) > 1 /\ \A i \in 1..Len(acc) : acc[i] # segs[1]
            THEN TopDirectories(Tail(rels), Append(acc, segs[1]))
            ELSE TopDirectories(Tail(rels), acc)

RECURSIVE JoinedLen(_)
JoinedLen(names) == IF names = <<>> THEN 0
                    ELSE Len(Head(names))
                         + (IF Tail(names) = <<>> THEN 0 ELSE Len(", ") + JoinedLen(Tail(names)))

\* every file with a known extension on the disk of the model is TypeScript
getRepoSummary(args, context) ==
    LET walked == Walk(context.repoPath)
        counted == SelectSeq(walked, HasKnownExtension)
        totalFiles == Len(counted)
        totalLines == SumLines(context.repoPath, counted)
        repoName == basename(context.repoPath)
        packageJsonPath == join(context.repoPath, "package.json")
        directories == TopDirectories(walked, <<>>)
        topDirectories == SubSeq(directories, 1, Min(10, Len(directories)))
    IN [success |-> TRUE,
        reads |-> {join(context.repoPath, counted[i]) : i \in 1..Len(counted)}
                  \cup (IF existsSync(packageJsonPath) THEN {packageJsonPath} ELSE {}),
        data |-> [name |-> repoName, totalFiles |-> totalFiles,
                  totalLines |-> totalLines, topDirectories |-> topDirectories],
        outputSummary |->
           [k |-> "Repository", name |-> repoName, totalFiles |-> totalFiles,
            totalLines |-> totalLines,
            len |-> Len("Repository: ") + Len(repoName) + Len("\n\nStats: ")
                    + Digits(totalFiles) + Len(" files, ") + Digits(totalLines)
                    + ((Digits(totalLines) - 1) \div 3) + Len(" lines\nLanguages: ")
                    + (IF totalFiles > 0
                       THEN Len("TypeScript: ") + Digits(totalFiles) + Len(" files")
                       ELSE Len("None detected"))
                    + Len("\nTop directories: ")
                    + (IF topDirectories = <<>> THEN Len("None")
                       ELSE JoinedLen(topDirectories))]]

\* ------------------------------------------------------------ the registry
TOOL_DEFINITIONS == <<"search_chunks", "get_excerpt", "graph_neighbors",
                      "list_files", "get_repo_summary">>

\* a ToolDefinition: its name, and its schema and handler by the name of the
\* built-in tool they belong to; a custom tool has the schema z.any() and a
\* handler that returns or throws
BuiltinTool(name) == [name |-> name, schema |-> name, handler |-> name]
CustomTool(name, handler) == [name |-> name, schema |-> "any", handler |-> handler]

\* new ToolRegistry(context)
ToolRegistry(context) ==
    [tools |-> [i \in 1..Len(TOOL_DEFINITIONS) |-> BuiltinTool(TOOL_DEFINITIONS[i])],
     context |-> context]
createToolRegistry(root, indexer) ==
    ToolRegistry([repoPath |-> root, indexer |-> indexer])

\* a list of names that stops after the first one
getToolNamesFirstOnly(registry) == <<registry.tools[1].name>>
\* Array.from(this.tools.keys())
getToolNames(registry) == [i \in 1..Len(registry.tools) |-> registry.tools[i].name]
hasTool(registry, name) == \E i \in 1..Len(registry.tools) : registry.tools[i].name = name

\* a registration that always adds an entry at the end
registerToolAtEnd(registry, name, handler) ==
    [registry EXCEPT !.tools = Append(@, CustomTool(name, handler))]
\* this.tools.set(name, definition): a known name keeps its place
registerTool(registry, name, handler) ==
    [registry EXCEPT !.tools =
        IF hasTool(registry, name)
        THEN [i \in 1..Len(@) |-> IF @[i].name = name THEN CustomTool(name, handler) ELSE @[i]]
        ELSE Append(@, CustomTool(name, handler))]

\* the shape of each z.object: its fields in the order they are declared
StringField(key) == [key |-> key, zod |-> "ZodString", minLength |-> 1, hasDefault |-> FALSE]
IntField(key, lo) ==
    [key |-> key, zod |-> "ZodNumber", int |-> TRUE, min |-> lo, hasDefault |-> FALSE]
IntFieldWithDefault(key, lo, hi, d) ==
    [key |-> key, zod |-> "ZodNumber", int |-> TRUE, min |-> lo, max |-> hi,
     hasDefault |-> TRUE, default |-> d]
shape(schema) ==
    CASE schema = "search_chunks" ->
           <<StringField("query"), IntFieldWithDefault("topK", 1, 50, 10)>>
      [] schema = "get_excerpt" ->
           <<StringField("path"), IntField("startLine", 1), IntField("endLine", 1)>>
      [] schema = "graph_neighbors" ->
           <<StringField("nodeId"), IntFieldWithDefault("depth", 1, 5, 1)>>
      [] schema = "list_files" ->
           <<StringField("glob"), IntFieldWithDefault("limit", 1, 1000, 100)>>
      [] schema = "get_repo_summary" -> <<>>

\* the default is unwrapped, and of the inner type only its kind is kept
zodFieldToJsonSchema(field) ==
    IF field.zod = "ZodString" THEN [type |-> "string"]
    ELSE IF field.zod = "ZodNumber" THEN [type |-> "number"]
    ELSE [type |-> "string"]

\* a ZodObject gives its properties and the keys without a default as
\* required (left out when there is none); anything else, z.any() of a custom
\* tool included, gives { type: 'object' }
zodToJsonSchema(schema) ==
    IF schema \in {TOOL_DEFINITIONS[i] : i \in 1..Len(TOOL_DEFINITIONS)}
    THEN LET fields == shape(schema)
             keys == {fields[i].key : i \in 1..Len(fields)}
             required == SelectSeq(fields, LAMBDA f : ~f.hasDefault)
         IN [type |-> "object",
             properties |-> [k \in keys |->
                               zodFieldToJsonSchema(
                                  fields[CHOOSE i \in 1..Len(fields) : fields[i].key = k])]]
            @@ (IF required # <<>>
                THEN [required |-> [i \in 1..Len(required) |-> required[i].key]]
                ELSE <<>>)
    ELSE [type |-> "object"]

\* Array.from(this.tools.values()).map(...): the description is left out
getToolSchemas(registry) ==
    [i \in 1..Len(registry.tools) |->
        [name |-> registry.tools[i].name,
         parameters |-> zodToJsonSchema(registry.tools[i].schema)]]

\* tool.schema.safeParse(args)
safeParse(schema, args) ==
    CASE schema = "search_chunks" -> SearchChunksArgsSchema(args)
      [] schema = "get_excerpt" -> GetExcerptArgsSchema(args)
      [] schema = "graph_neighbors" -> GraphNeighborsArgsSchema(args)
      [] schema = "list_files" -> ListFilesArgsSchema(args)
      [] schema = "get_repo_summary" -> GetRepoSummaryArgsSchema(args)
      [] OTHER -> Valid(args)

\* how a call of tool.handler(data, context) ends
Returned(toolResult) == [threw |-> FALSE, result |-> toolResult]
Thrown(message) == [threw |-> TRUE, message |-> message]
handler(h, data, context) ==
    CASE h = "search_chunks" -> Returned(searchChunks(data, context))
      [] h = "get_excerpt" -> Returned(getExcerpt(data, context))
      [] h = "graph_neighbors" -> Returned(graphNeighbors(data, context))
      [] h = "list_files" -> Returned(listFiles(data, context))
      [] h = "get_repo_summary" -> Returned(getRepoSummary(data, context))
      [] h = "throws" -> Thrown("handler failed")
      [] OTHER -> Returned([success |-> TRUE, data |-> data, reads |-> {},
                            outputSummary |-> TextSummary("custom tool output")])

RECURSIVE IssuesLen(_)
IssuesLen(paths) ==
    IF paths = <<>> THEN 0
    ELSE Len(Head(paths)) + Len(": Required")
         + (IF Tail(paths) = <<>> THEN 0 ELSE Len("; ") + IssuesLen(Tail(paths)))

\* the exception of a handler is let through: the promise rejects
HandlerErrorRethrown(message) ==
    [threw |-> TRUE, invoked |-> TRUE, message |-> message]
\* the catch around the handler call
HandlerErrorCaught(message) ==
    [threw |-> FALSE, invoked |-> TRUE, success |-> FALSE,
     data |-> "null", reads |-> {}, error |-> message,
     outputSummary |-> [k |-> "Tool execution failed", message |-> message,
                        len |-> Len("Tool execution failed: ") + Len(message)]]

\* ToolRegistry.executeToolCall; threw says that the promise rejected,
\* invoked that the handler of the tool was called
executeToolCall(registry, name, argsJson) ==
    LET known == {i \in 1..Len(registry.tools) : registry.tools[i].name = name}
    IN IF known = {}
       THEN [threw |-> FALSE, invoked |-> FALSE, success |-> FALSE,
             data |-> "null", reads |-> {}, error |-> "Unknown tool",
             outputSummary |-> [k |-> "Unknown tool", name |-> name,
                                available |-> getToolNames(registry),
                                len |-> Len("Unknown tool: \"") + Len(name)
                                        + Len("\". Available tools: ")
                                        + JoinedLen(getToolNames(registry))]]
       ELSE IF ~argsJson.json
       THEN [threw |-> FALSE, invoked |-> FALSE, success |-> FALSE,
             data |-> "null", reads |-> {}, error |-> "Invalid JSON arguments",
             outputSummary |-> [k |-> "Failed to parse arguments",
                                len |-> Len("Failed to parse arguments: Unexpected token")]]
       ELSE LET tool == registry.tools[CHOOSE i \in known : TRUE]
                validation == safeParse(tool.schema, argsJson)
            IN IF ~validation.success
               THEN [threw |-> FALSE, invoked |-> FALSE, success |-> FALSE,
                     data |-> "null", reads |-> {}, error |-> "Validation failed",
                     errors |-> validation.errors,
                     outputSummary |-> [k |-> "Invalid arguments", name |-> name,
                                        errors |-> validation.errors,
                                        len |-> Len("Invalid arguments for \"") + Len(name)
                                                + Len("\": ") + IssuesLen(validation.errors)]]
               ELSE LET outcome == handler(tool.handler, validation.data, registry.context)
                    IN IF outcome.threw
                       THEN HandlerErrorCaught(outcome.message)
                       ELSE [threw |-> FALSE, invoked |-> TRUE] @@ outcome.result

\* the registry of a run: createToolRegistry(config.repoRoot, indexer)
toolRegistry == createToolRegistry(repoPath, [search |-> TRUE])

\* ------------------------------------------------------------ verifySources
\* the errors verifySources pushes for one source
SourceErrors(source, config) ==
    LET fullPath == join(config.repoPath, source.path)
        resolvedPath == resolve(fullPath)
        Error(k) == <<[k |-> k, path |-> source.path]>>
    IN IF source.path = "" THEN <<[k |-> "Source missing path"]>>
       ELSE IF source.startLine < 1 THEN Error("startLine must be >= 1")
       ELSE IF source.endLine < source.startLine THEN Error("endLine must be >= startLine")
       ELSE IF ~StartsWith(resolvedPath, resolve(config.repoPath))
       THEN Error("path outside repository")
       ELSE IF ~existsSync(fullPath) THEN Error("file does not exist")
       ELSE IF ~isFile(fullPath) THEN Error("failed to read file")
       ELSE (IF source.startLine > lineCount(fullPath)
             THEN Error("startLine exceeds file length") ELSE <<>>)
            \o (IF source.endLine > lineCount(fullPath)
                THEN Error("endLine exceeds file length") ELSE <<>>)

RECURSIVE AllSourceErrors(_, _)
AllSourceErrors(sources, config) ==
    IF sources = <<>> THEN <<>>
    ELSE SourceErrors(Head(sources), config) \o AllSourceErrors(Tail(sources), config)

verifySources(sources, config) ==
    IF sources = <<>>
    THEN [valid |-> FALSE, errors |-> <<[k |-> "No sources provided"]>>]
    ELSE [valid |-> AllSourceErrors(sources, config) = <<>>,
          errors |-> AllSourceErrors(sources, config)]

\* ------------------------------------------- sources written as markdown
\* Here a text is the string itself, and the regular expressions of
\* verifier.ts are run character by character.
\* the index after \d* and after [^`]* read from index i
RECURSIVE SkipDigits(_, _)
SkipDigits(s, i) == IF IsDigit(At(s, i)) THEN SkipDigits(s, i + 1) ELSE i
RECURSIVE SkipToBacktick(_, _)
SkipToBacktick(s, i) ==
    IF i > Len(s) \/ At(s, i) = Backtick THEN i ELSE SkipToBacktick(s, i + 1)

\* parseInt(str, 10) of a string of digits
RECURSIVE ParseDigits(_, _, _)
ParseDigits(s, i, acc) ==
    IF i > Len(s) THEN acc
    ELSE ParseDigits(s, i + 1,
                     10 * acc + (CHOOSE d \in 0..9 : ToString(d) = At(s, i)))
parseInt(s) == ParseDigits(s, 1, 0)

\* sources.map(s => `- ${s.path}:${s.startLine}-${s.endLine}`).join('\n')
SourceBullet(source) ==
    "- " \o source.path \o ":" \o ToString(source.startLine)
         \o "-" \o ToString(source.endLine)
RECURSIVE JoinLines(_)
JoinLines(lines) ==
    IF lines = <<>> THEN ""
    ELSE IF Len(lines) = 1 THEN lines[1]
    ELSE lines[1] \o "\n" \o JoinLines(Tail(lines))
formatSources(sources) ==
    IF Len(sources) = 0 THEN "No sources"
    ELSE JoinLines([i \in 1..Len(sources) |-> SourceBullet(sources[i])])

\* one attempt of /[-*]\s*`([^`]+)`\s*:\s*(\d+)\s*-\s*(\d+)/ at index i: every
\* quantifier is followed by a character it cannot take, so the greedy match
\* is the only one
sourcePattern(s, i) ==
    LET tick1 == SkipSpaces(s, i + 1)
        tick2 == SkipToBacktick(s, tick1 + 1)
        colon == SkipSpaces(s, tick2 + 1)
        start == SkipSpaces(s, colon + 1)
        afterStart == SkipDigits(s, start)
        dash == SkipSpaces(s, afterStart)
        end == SkipSpaces(s, dash + 1)
        afterEnd == SkipDigits(s, end)
    IN IF /\ At(s, i) \in {"-", "*"}
          /\ At(s, tick1) = Backtick
          /\ tick2 > tick1 + 1
          /\ At(s, tick2) = Backtick
          /\ At(s, colon) = ":"
          /\ afterStart > start
          /\ At(s, dash) = "-"
          /\ afterEnd > end
       THEN [matched |-> TRUE, lastIndex |-> afterEnd,
             filePath |-> SubSeq(s, tick1 + 1, tick2 - 1),
             startStr |-> SubSeq(s, start, afterStart - 1),
             endStr |-> SubSeq(s, end, afterEnd - 1)]
       ELSE [matched |-> FALSE]

\* `while ((match = sourcePattern.exec(sourcesSection)) !== null)`
RECURSIVE ExecSources(_, _, _)
ExecSources(section, i, sources) ==
    IF i > Len(section) THEN sources
    ELSE LET match == sourcePattern(section, i)
         IN IF match.matched
            THEN ExecSources(section, match.lastIndex,
                             Append(sources, [path |-> match.filePath,
                                              startLine |-> parseInt(match.startStr),
                                              endLine |-> parseInt(match.endStr)]))
            ELSE ExecSources(section, i + 1, sources)

\* /##\s*Sources\s*\n([\s\S]*?)(?:\n##|$)/i from index i on: the index where
\* the captured group begins, 0 when there is no match. The second \s* gives
\* back characters until a '\n' follows it, so the group begins after the last
\* '\n' of the white space behind the word.
RECURSIVE sourcesMatch(_, _)
sourcesMatch(s, i) ==
    IF i > Len(s) THEN 0
    ELSE LET word == SkipSpaces(s, i + 2)
             after == word + Len("Sources")
             rest == SkipSpaces(s, after)
             newlines == {k \in after..(rest - 1) : At(s, k) = "\n"}
         IN IF /\ SubSeq(s, i, Min(i + 1, Len(s))) = "##"
               /\ after - 1 <= Len(s)
               /\ ToLower(SubSeq(s, word, after - 1)) = "sources"
               /\ newlines # {}
            THEN 1 + (CHOOSE k \in newlines : \A m \in newlines : m <= k)
            ELSE sourcesMatch(s, i + 1)

\* the captured group: up to the first '\n##' or the end of the text
RECURSIVE GroupEnd(_, _)
GroupEnd(s, i) ==
    IF i > Len(s) THEN i
    ELSE IF i + 2 <= Len(s) /\ SubSeq(s, i, i + 2) = "\n##" THEN i
    ELSE GroupEnd(s, i + 1)

parseSourcesFromMarkdown(answerMd) ==
    LET begin == sourcesMatch(answerMd, 1)
        sourcesSection == SubSeq(answerMd, begin, GroupEnd(answerMd, begin) - 1)
    IN IF begin = 0 THEN <<>> ELSE ExecSources(sourcesSection, 1, <<>>)

\* verifySourcesInAnswer of agent/tools.ts on the characters of the answer.
\* The while loop over sourcePattern.exec: acc is [sources, errors, foundAny].
\* a loop that leaves at the first invalid range
RECURSIVE ExecVerifyUntilInvalid(_, _, _)
ExecVerifyUntilInvalid(section, i, acc) ==
    IF i > Len(section) THEN acc
    ELSE LET match == sourcePattern(section, i)
         IN IF ~match.matched THEN ExecVerifyUntilInvalid(section, i + 1, acc)
            ELSE LET c == [path |-> match.filePath,
                           startLine |-> parseInt(match.startStr),
                           endLine |-> parseInt(match.endStr)]
                 IN IF c.startLine < 1 \/ c.endLine < c.startLine
                    THEN [acc EXCEPT !.foundAny = TRUE,
                                     !.errors = Append(@, InvalidRangeError(c))]
                    ELSE ExecVerifyUntilInvalid(section, match.lastIndex,
                             [acc EXCEPT !.foundAny = TRUE, !.sources = Append(@, c)])
RECURSIVE ExecVerify(_, _, _)
ExecVerify(section, i, acc) ==
    IF i > Len(section) THEN acc
    ELSE LET match == sourcePattern(section, i)
         IN IF ~match.matched THEN ExecVerify(section, i + 1, acc)
            ELSE LET c == [path |-> match.filePath,
                           startLine |-> parseInt(match.startStr),
                           endLine |-> parseInt(match.endStr)]
                 IN IF c.startLine < 1 \/ c.endLine < c.startLine
                    THEN ExecVerify(section, match.lastIndex,
                             [acc EXCEPT !.foundAny = TRUE,
                                         !.errors = Append(@, InvalidRangeError(c))])
                    ELSE ExecVerify(section, match.lastIndex,
                             [acc EXCEPT !.foundAny = TRUE, !.sources = Append(@, c)])
verifySourcesInAnswerText(answerMd) ==
    LET begin == sourcesMatch(answerMd, 1)
        sourcesSection == SubSeq(answerMd, begin, GroupEnd(answerMd, begin) - 1)
        r == ExecVerify(sourcesSection, 1,
                        [sources |-> <<>>, errors |-> <<>>, foundAny |-> FALSE])
        errors == IF r.foundAny THEN r.errors ELSE Append(r.errors, NoValidSourcesError)
    IN IF begin = 0
       THEN [valid |-> FALSE, sources |-> <<>>, errors |-> <<MissingSectionError>>]
       ELSE [valid |-> Verdict(errors, r.sources), sources |-> r.sources, errors |-> errors]

verifyMarkdownSources(answerMd, root) ==
    LET sources == parseSourcesFromMarkdown(answerMd)
    IN IF Len(sources) = 0
       THEN [valid |-> FALSE, errors |-> <<[k |-> "No valid sources found in answer"]>>]
       ELSE verifySources(sources, [repoPath |-> root])

\* ----------------------------------------------------------------- prompts
generateSystemPrompt(n) == [k |-> "system prompt", maxSteps |-> n]
\* a repair prompt that reports only the first error
generateRepairPromptFirstOnly(errors) ==
    [k |-> "repair prompt", errors |-> IF errors = <<>> THEN <<>> ELSE <<Head(errors)>>]
generateRepairPrompt(errors) == [k |-> "repair prompt", errors |-> errors]
generateForcedTerminationPrompt(stepCount, evidence) ==
    [k |-> "forced termination prompt", stepCount |-> stepCount, evidence |-> evidence]

\* the answer runAgent synthesizes when the forced call gave none
FallbackAnswer(n, evidence) ==
    <<[t |-> "text", v |-> "Unable to fully answer the question", maxSteps |-> n],
      BlankLine, OtherHeader, BlankLine,
      [t |-> "text", v |-> "evidence", evidence |-> evidence],
      BlankLine, SourcesHeader, BlankLine, NoSourcesLine>>
MaxStepsError(n) == "Max steps (" \o ToString(n) \o ") exceeded"

\* DEFAULT_AGENT_LOOP_CONFIG.maxToolOutputChars and .maxExcerptLines
maxToolOutputChars == 8000
maxExcerptLines == 120
\* truncatedOutput.slice(0, n)
Head_(output, n) == [output EXCEPT !.len = SliceLen(output.len, 0, n)]

\* the two messages pushed after a rejected answer
RepairMessages(answerMd, errors) ==
    <<[role |-> "assistant",
       content |-> [k |-> "text", lines |-> <<DoneLine, BlankLine>> \o answerMd]],
      [role |-> "user", content |-> generateRepairPrompt(errors)]>>

\* a tool message that carries the tool's name in place of the invocation id
ToolMessageByName(toolCall, truncatedOutput) ==
    [role |-> "tool", content |-> truncatedOutput, toolCallId |-> toolCall.name]
\* the message pushed after a tool invocation
ToolMessage(toolCall, truncatedOutput) ==
    [role |-> "tool", content |-> truncatedOutput, toolCallId |-> toolCall.id]

\* ------------------------------------------------------ what the LLM may do
\* the invocations of a response: a get_excerpt that succeeds, a call of a
\* tool that is not registered and a get_excerpt whose arguments violate the
\* schema (two failed results)
Invocations ==
    { [id |-> "call_1", name |-> "get_excerpt", argumentsJson |-> ExcerptArgs("foo.ts", 1, 5)],
      [id |-> "call_2", name |-> "frobnicate", argumentsJson |-> NotJson],
      [id |-> "call_3", name |-> "get_excerpt", argumentsJson |-> ExcerptArgs("foo.ts", 0, 2)] }

\* toolRegistry.executeToolCall depends on its arguments and on the disk, which
\* no step of a run changes: its result for each invocation
toolResults ==
    [inv \in Invocations |->
        executeToolCall(toolRegistry, inv.name, inv.argumentsJson)]

RECURSIVE SeqsUpTo(_, _)
SeqsUpTo(S, n) == IF n = 0 THEN {<<>>}
                  ELSE LET shorter == SeqsUpTo(S, n - 1)
                       IN shorter \cup {Append(q, x) : q \in shorter, x \in S}

\* the invocations of one response carry different ids
Injective(q) == \A i, j \in 1..Len(q) : q[i] = q[j] => i = j
ToolCallLists == {tc \in SeqsUpTo(Invocations, MaxCallsPerResponse) : Injective(tc)}

Contents ==
    { <<>>,
      <<TextLine>>,
      <<DoneLine, BlankLine>>,
      <<DoneLine, BlankLine, TextLine>>,
      <<DoneLine, BlankLine, TextLine, BlankLine, SourcesHeader, CiteLine("foo.ts", 1, 3)>>,
      <<DoneLine, BlankLine, TextLine, BlankLine, SourcesHeader, CiteLine("missing.ts", 1, 2)>>,
      <<DoneLine, TextLine, SourcesHeader, CiteLine("foo.ts", 1, 3), CiteLine("foo.ts", 0, 1),
        CiteLine("foo.ts", 3, 2)>>,
      <<DoneLine, TextLine, SourcesHeader, TextLine>>,
      <<TextLine, SourcesHeader, CiteLine("foo.ts", 2, 9)>> }

\* a ChatResponse: assistantText (<<>> when absent) and toolCalls (<<>> when absent)
Responses ==
    {[assistantText |-> c, toolCalls |-> <<>>] : c \in Contents}
    \cup {[assistantText |-> <<>>, toolCalls |-> tc] : tc \in ToolCallLists \ {<<>>}}

\* err.message of what a chat call throws
ErrorMessages == {"Request timed out after 60000ms", ""}

\* a repository with a.ts in the root, a file with an extension that is not
\* indexed, a directory that is ignored, and an empty directory src
File(text) == [text |-> text, readable |-> TRUE]
InitialTree ==
    [dirs |-> [d \in {".git", "src"} |-> TRUE],
     files |-> (<<"", "a.ts">> :> File("alpha")) @@ (<<"", "notes.txt">> :> File("alpha"))
               @@ (<<".git", "hook.ts">> :> File("alpha"))]
\* new Database(dbPath) and initSchema on a path that held no database; the
\* build of SQLite has recursive triggers on or off
EmptyDatabase(recursive_triggers) ==
    [open |-> TRUE, files |-> <<>>, files_fts |-> <<>>, sqlite_sequence |-> 0,
     recursive_triggers |-> recursive_triggers]
\* no Indexer has been constructed
NoDatabase == [open |-> FALSE]

\* -------------------------------------------------------------------- state
\* no second run
NoRun == [id |-> 0]
\* Agent.run before its loop: the transcript holds the system prompt and the
\* question
LegacyStart ==
    [pc |-> "loop", steps |-> 0, retryCount |-> 0,
     messages |-> <<[role |-> "system"], [role |-> "user", content |-> [k |-> "question"]]>>,
     pending |-> <<>>, result |-> Undefined]

VARIABLES
    maxSteps,          \* config.maxSteps
    pc,                \* where runAgent stands
    currentStep, messages, steps, gatheredEvidence,
    finalAnswer, verified, verifiedSources, error,
    pending,           \* the invocations of parsed.toolCalls not yet executed
    request,           \* the argument of the latest llmProvider.chat call
    chatCalls,         \* number of chat calls made: [main, forced]
    toolRuns,          \* number of executeToolCall calls made
    inflight,          \* the awaited calls that have not settled yet
    closed,            \* number of indexer.close() calls made
    doneEmitted,       \* some response so far carried a final (DONE) answer
    call,              \* the latest direct call of a library function
    ret,               \* what that call returned
    tools,             \* this.tools of the ToolRegistry the direct calls work on
    worktree,          \* the files and directories under the root of a repository
    database,          \* the index database of that repository: the table files,
                       \* its index files_fts and the AUTOINCREMENT sequence
    paused,            \* the run of runAgent that waits while this one works
    legacy             \* the locals of a call of the legacy Agent.run

vars == <<maxSteps, pc, currentStep, messages, steps, gatheredEvidence,
          finalAnswer, verified, verifiedSources, error, pending, request,
          chatCalls, toolRuns, inflight, closed, doneEmitted, call, ret, tools,
          worktree, database, paused, legacy>>

\* the state of a run of runAgent
run == <<maxSteps, pc, currentStep, messages, steps, gatheredEvidence,
         finalAnswer, verified, verifiedSources, error, pending, request,
         chatCalls, toolRuns, inflight, closed, doneEmitted>>

\* an awaited call: llmProvider.chat, or toolRegistry.executeToolCall for the
\* invocation that has `remaining` invocations of its response from it on
LLMCall(which) == [kind |-> "llm", call |-> which]
ToolCall(toolCall, remaining) ==
    [kind |-> "tool", toolCall |-> toolCall, remaining |-> remaining]

\* the response text alone is classified as a final answer
IsDoneAnswer(response) == parseResponse(response.assistantText, <<>>).type = "done"

Init ==
    /\ maxSteps \in 0..MaxStepsBound
    /\ pc = "loop"
    /\ currentStep = 0
    /\ messages = <<[role |-> "system", content |-> generateSystemPrompt(maxSteps)],
                    [role |-> "user", content |-> [k |-> "question"]]>>
    /\ steps = <<>>
    /\ gatheredEvidence = <<>>
    /\ finalAnswer = Undefined
    /\ verified = FALSE
    /\ verifiedSources = <<>>
    /\ error = Undefined
    /\ pending = <<>>
    /\ request = Undefined
    /\ chatCalls = [main |-> 0, forced |-> 0]
    /\ toolRuns = 0
    /\ inflight = {}
    /\ closed = 0
    /\ doneEmitted = FALSE
    /\ call = [op |-> "none"]
    /\ ret = Undefined
    /\ tools = toolRegistry.tools
    /\ worktree = InitialTree
    /\ database = NoDatabase
    /\ paused = NoRun
    /\ legacy = LegacyStart

\* a loop test that lets one step too many through
LoopConditionInclusive == currentStep <= maxSteps
\* `while (currentStep < maxSteps)`
LoopCondition == currentStep < maxSteps

\* the loop test holds: count the step, call the LLM
CallLLM ==
    /\ pc = "loop"
    /\ UNCHANGED <<call, ret, tools, worktree, database, paused, legacy>>
    /\ LoopCondition
    /\ currentStep' = currentStep + 1
    /\ request' = Some([messages |-> messages, tools |-> TOOL_DEFINITIONS])
    /\ chatCalls' = [chatCalls EXCEPT !.main = @ + 1]
    /\ inflight' = inflight \cup {LLMCall("main")}
    /\ pc' = "chat"
    /\ UNCHANGED <<maxSteps, messages, steps, gatheredEvidence, finalAnswer,
                   verified, verifiedSources, error, pending, toolRuns, closed, doneEmitted>>

\* the loop test fails
LoopExit ==
    /\ pc = "loop"
    /\ UNCHANGED <<call, ret, tools, worktree, database, paused, legacy>>
    /\ ~LoopCondition
    /\ pc' = "after"
    /\ UNCHANGED <<maxSteps, currentStep, messages, steps, gatheredEvidence,
                   finalAnswer, verified, verifiedSources, error, pending,
                   request, chatCalls, toolRuns, inflight, closed, doneEmitted>>

\* the chat call of the main loop returns `response`
ChatReturns(response) ==
    /\ pc = "chat"
    /\ UNCHANGED <<call, ret, tools, worktree, database, paused, legacy>>
    /\ LET parsed == parseResponse(response.assistantText, response.toolCalls)
       IN IF parsed.type = "error"
          THEN /\ error' = Some(parsed.error)
               /\ pc' = "after"
               /\ UNCHANGED <<messages, steps, finalAnswer, verified,
                              verifiedSources, pending>>
          ELSE IF parsed.type = "tool_calls"
          THEN /\ messages' = Append(messages,
                      [role |-> "assistant",
                       content |-> [k |-> "text", lines |-> parsed.rawContent],
                       toolCalls |-> parsed.toolCalls])
               /\ pending' = parsed.toolCalls
               /\ pc' = "tools"
               /\ UNCHANGED <<steps, finalAnswer, verified, verifiedSources, error>>
          ELSE IF parsed.answerMd # <<>>
          THEN LET verification == verifySourcesInAnswer(parsed.answerMd)
               IN /\ steps' = Append(steps,
                         [stepNo |-> currentStep,
                          modelMessageSummary |-> [k |-> "Provided final answer"],
                          isDone |-> TRUE,
                          verifierPassed |-> verification.valid,
                          verifierErrors |-> verification.errors])
                  /\ IF verification.valid
                     THEN /\ finalAnswer' = Some(parsed.answerMd)
                          /\ verified' = TRUE
                          /\ verifiedSources' = verification.sources
                          /\ pc' = "after"
                          /\ UNCHANGED messages
                     ELSE /\ messages' = messages \o
                                RepairMessages(parsed.answerMd, verification.errors)
                          /\ pc' = "loop"
                          /\ UNCHANGED <<finalAnswer, verified, verifiedSources>>
                  /\ UNCHANGED <<error, pending>>
          ELSE /\ steps' = Append(steps,
                      [stepNo |-> currentStep,
                       modelMessageSummary |-> [k |-> "rawContent"],
                       isDone |-> FALSE])
               /\ pc' = "loop"
               /\ UNCHANGED <<messages, finalAnswer, verified, verifiedSources,
                              error, pending>>
    /\ inflight' = inflight \ {LLMCall("main")}
    /\ UNCHANGED <<maxSteps, currentStep, gatheredEvidence, request, chatCalls,
                   toolRuns, closed>>
    /\ doneEmitted' = (doneEmitted \/ IsDoneAnswer(response))

\* the chat call of the main loop throws an error with message `msg`
ChatThrows(msg) ==
    /\ pc = "chat"
    /\ UNCHANGED <<call, ret, tools, worktree, database, paused, legacy>>
    /\ error' = Some(msg)
    /\ steps' = Append(steps,
          [stepNo |-> currentStep,
           modelMessageSummary |-> [k |-> "Error", message |-> msg],
           isDone |-> FALSE])
    /\ pc' = "after"
    /\ inflight' = inflight \ {LLMCall("main")}
    /\ UNCHANGED <<maxSteps, currentStep, messages, gatheredEvidence, finalAnswer,
                   verified, verifiedSources, pending, request, chatCalls,
                   toolRuns, closed, doneEmitted>>

\* every invocation of the response is started at once
StartToolsTogether ==
    /\ pc = "tools"
    /\ UNCHANGED <<call, ret, tools, worktree, database, paused, legacy>>
    /\ pending # <<>>
    /\ inflight = {}
    /\ inflight' = {ToolCall(pending[i], Len(pending) - i + 1) : i \in 1..Len(pending)}
    /\ toolRuns' = toolRuns + Len(pending)
    /\ UNCHANGED <<maxSteps, pc, currentStep, messages, steps, gatheredEvidence,
                   finalAnswer, verified, verifiedSources, error, pending,
                   request, chatCalls, closed, doneEmitted>>
\* one turn of `for (const toolCall of parsed.toolCalls)` begins:
\* `await toolRegistry.executeToolCall(...)` for the next invocation
StartTool ==
    /\ pc = "tools"
    /\ UNCHANGED <<call, ret, tools, worktree, database, paused, legacy>>
    /\ pending # <<>>
    /\ inflight = {}
    /\ inflight' = {ToolCall(Head(pending), Len(pending))}
    /\ toolRuns' = toolRuns + 1
    /\ UNCHANGED <<maxSteps, pc, currentStep, messages, steps, gatheredEvidence,
                   finalAnswer, verified, verifiedSources, error, pending,
                   request, chatCalls, closed, doneEmitted>>

\* a turn that pushes the crumb whatever the result says
ExecuteToolCrumbAlways ==
    /\ pc = "tools"
    /\ UNCHANGED <<call, ret, tools, worktree, database, paused, legacy>>
    /\ pending # <<>>
    /\ ToolCall(Head(pending), Len(pending)) \in inflight
    /\ inflight' = inflight \ {ToolCall(Head(pending), Len(pending))}
    /\ \E toolResult \in {toolResults[Head(pending)]} :
       LET toolCall == Head(pending)
           truncatedOutput == truncateOutput(toolResult.outputSummary, maxToolOutputChars)
       IN /\ gatheredEvidence' =
                Append(gatheredEvidence,
                       [toolName |-> toolCall.name, head |-> Head_(truncatedOutput, 200)])
          /\ messages' = Append(messages, ToolMessage(toolCall, truncatedOutput))
          /\ steps' = Append(steps,
                [stepNo |-> currentStep,
                 toolName |-> toolCall.name,
                 toolInput |-> toolCall.argumentsJson,
                 toolOutputSummary |-> Head_(truncatedOutput, 500),
                 modelMessageSummary |-> [k |-> "Called", toolName |-> toolCall.name],
                 isDone |-> FALSE])
    /\ pending' = Tail(pending)
    /\ pc' = IF Tail(pending) = <<>> THEN "loop" ELSE "tools"
    /\ UNCHANGED <<maxSteps, currentStep, finalAnswer, verified, verifiedSources,
                   error, request, chatCalls, toolRuns, closed, doneEmitted>>

\* the awaited executeToolCall settles and the turn runs to its end; after
\* the last turn, `continue`
ExecuteTool ==
    /\ pc = "tools"
    /\ UNCHANGED <<call, ret, tools, worktree, database, paused, legacy>>
    /\ pending # <<>>
    /\ ToolCall(Head(pending), Len(pending)) \in inflight
    /\ inflight' = inflight \ {ToolCall(Head(pending), Len(pending))}
    /\ \E toolResult \in {toolResults[Head(pending)]} :
       LET toolCall == Head(pending)
           truncatedOutput == truncateOutput(toolResult.outputSummary, maxToolOutputChars)
       IN /\ gatheredEvidence' =
                IF toolResult.success
                THEN Append(gatheredEvidence,
                            [toolName |-> toolCall.name, head |-> Head_(truncatedOutput, 200)])
                ELSE gatheredEvidence
          /\ messages' = Append(messages, ToolMessage(toolCall, truncatedOutput))
          /\ steps' = Append(steps,
                [stepNo |-> currentStep,
                 toolName |-> toolCall.name,
                 toolInput |-> toolCall.argumentsJson,
                 toolOutputSummary |-> Head_(truncatedOutput, 500),
                 modelMessageSummary |-> [k |-> "Called", toolName |-> toolCall.name],
                 isDone |-> FALSE])
    /\ pending' = Tail(pending)
    /\ pc' = IF Tail(pending) = <<>> THEN "loop" ELSE "tools"
    /\ UNCHANGED <<maxSteps, currentStep, finalAnswer, verified, verifiedSources,
                   error, request, chatCalls, toolRuns, closed, doneEmitted>>

\* `if (!verified && !error)` and `if (currentStep >= maxSteps)` hold: push
\* the termination prompt and make the final chat call, with no tools
CallForced ==
    /\ pc = "after"
    /\ UNCHANGED <<call, ret, tools, worktree, database, paused, legacy>>
    /\ ~verified /\ ~TruthyStr(error)
    /\ currentStep >= maxSteps
    /\ messages' = Append(messages,
          [role |-> "user",
           content |-> generateForcedTerminationPrompt(maxSteps, gatheredEvidence)])
    /\ request' = Some([messages |-> messages', tools |-> <<>>])
    /\ chatCalls' = [chatCalls EXCEPT !.forced = @ + 1]
    /\ inflight' = inflight \cup {LLMCall("forced")}
    /\ pc' = "forced"
    /\ UNCHANGED <<maxSteps, currentStep, steps, gatheredEvidence, finalAnswer,
                   verified, verifiedSources, error, pending, toolRuns, closed, doneEmitted>>

\* one of the two conditions fails: straight to the cleanup
SkipForced ==
    /\ pc = "after"
    /\ UNCHANGED <<call, ret, tools, worktree, database, paused, legacy>>
    /\ ~(~verified /\ ~TruthyStr(error) /\ currentStep >= maxSteps)
    /\ pc' = "cleanup"
    /\ UNCHANGED <<maxSteps, currentStep, messages, steps, gatheredEvidence,
                   finalAnswer, verified, verifiedSources, error, pending,
                   request, chatCalls, toolRuns, inflight, closed, doneEmitted>>

\* `if (!finalAnswer)` after the forced call: the synthesized fallback
Fallback(answer) ==
    IF TruthyText(answer)
    THEN /\ finalAnswer' = answer
         /\ UNCHANGED error
    ELSE /\ finalAnswer' = Some(FallbackAnswer(maxSteps, gatheredEvidence))
         /\ error' = Some(MaxStepsError(maxSteps))

\* the forced-termination chat call returns `response`
ForcedReturns(response) ==
    /\ pc = "forced"
    /\ UNCHANGED <<call, ret, tools, worktree, database, paused, legacy>>
    /\ IF response.assistantText # <<>>
       THEN LET parsed == parseResponse(response.assistantText, <<>>)
            IN IF parsed.type = "done" /\ parsed.answerMd # <<>>
               THEN LET verification == verifySourcesInAnswer(parsed.answerMd)
                    IN /\ Fallback(Some(parsed.answerMd))
                       /\ verified' = verification.valid
                       /\ verifiedSources' = verification.sources
               ELSE /\ Fallback(Some(response.assistantText))
                    /\ UNCHANGED <<verified, verifiedSources>>
       ELSE /\ Fallback(finalAnswer)
            /\ UNCHANGED <<verified, verifiedSources>>
    /\ pc' = "cleanup"
    /\ inflight' = inflight \ {LLMCall("forced")}
    /\ UNCHANGED <<maxSteps, currentStep, messages, steps, gatheredEvidence,
                   pending, request, chatCalls, toolRuns, closed>>
    /\ doneEmitted' = (doneEmitted \/ IsDoneAnswer(response))

\* the forced-termination chat call throws: the error is ignored
ForcedThrows ==
    /\ pc = "forced"
    /\ UNCHANGED <<call, ret, tools, worktree, database, paused, legacy>>
    /\ Fallback(finalAnswer)
    /\ pc' = "cleanup"
    /\ inflight' = inflight \ {LLMCall("forced")}
    /\ UNCHANGED <<maxSteps, currentStep, messages, steps, gatheredEvidence,
                   verified, verifiedSources, pending, request, chatCalls,
                   toolRuns, closed, doneEmitted>>

\* a cleanup that leaves the handle open when the run ended with an error
CleanupUnlessError ==
    /\ pc = "cleanup"
    /\ UNCHANGED <<call, ret, tools, worktree, database, paused, legacy>>
    /\ closed' = IF error.set THEN closed ELSE closed + 1
    /\ pc' = "returned"
    /\ UNCHANGED <<maxSteps, currentStep, messages, steps, gatheredEvidence,
                   finalAnswer, verified, verifiedSources, error, pending,
                   request, chatCalls, toolRuns, inflight, doneEmitted>>
\* indexer.close() and return
Cleanup ==
    /\ pc = "cleanup"
    /\ UNCHANGED <<call, ret, tools, worktree, database, paused, legacy>>
    /\ closed' = closed + 1
    /\ pc' = "returned"
    /\ UNCHANGED <<maxSteps, currentStep, messages, steps, gatheredEvidence,
                   finalAnswer, verified, verifiedSources, error, pending,
                   request, chatCalls, toolRuns, inflight, doneEmitted>>

\* the AgentLoopResult of a run that has returned
NoAnswerGenerated == <<[t |-> "text", v |-> "No answer generated"]>>
result == [answerMd |-> IF finalAnswer.set THEN finalAnswer.v ELSE NoAnswerGenerated,
           steps |-> steps,
           sources |-> verifiedSources,
           verified |-> verified,
           error |-> error]

Next ==
    \/ CallLLM
    \/ LoopExit
    \/ \E response \in Responses : ChatReturns(response)
    \/ \E msg \in ErrorMessages : ChatThrows(msg)
    \/ StartTool
    \/ ExecuteTool
    \/ CallForced
    \/ SkipForced
    \/ \E response \in Responses : ForcedReturns(response)
    \/ ForcedThrows
    \/ Cleanup

Spec == Init /\ [][Next]_vars

\* every call returns or throws, and the worker runs on
FairSpec == Spec /\ WF_vars(Next)

\* ------------------------------------------- direct calls of the library
\* One call of an exported function, with arguments drawn from the sets
\* below, on the disk of the model; the run of runAgent stands still.
LineInputs == (0..MaxLineArg) \cup {131}
PathInputs == {"foo.ts", "long.ts", "missing.ts", ".", "../repo/foo.ts",
               "../repo-evil/secret.ts", "../../etc/passwd"}
NoFields == [k \in {} |-> k]
ArgInputs ==
    {NotJson, JsonNull, ArgsObject(NoFields)}
    \cup {ExcerptArgs(p, a, b) : p \in PathInputs, a \in LineInputs, b \in LineInputs}
    \cup {ArgsObject([path |-> Num(1), startLine |-> Num(1), endLine |-> Num(1)]),
          ArgsObject([path |-> Str("foo.ts"), startLine |-> Fraction, endLine |-> Num(2)]),
          ArgsObject([path |-> Str("foo.ts"), startLine |-> Str("1"), endLine |-> Num(2)]),
          ArgsObject([path |-> Str("foo.ts"), startLine |-> Num(1)]),
          ArgsObject([path |-> Str(""), startLine |-> Num(1), endLine |-> Num(1)]),
          ExcerptArgs("foo.ts", -1, 2)}
    \cup {ArgsObject([query |-> Str(q)]) : q \in {"alpha", "beta gamma", "\"\"", "nothing", " \t\n", "' \""}}
    \cup {ArgsObject([query |-> Str("alpha"), topK |-> Num(k)]) : k \in {0, 1, 50, 51}}
    \cup {ArgsObject([query |-> Str("alpha"), topK |-> Fraction]),
          ArgsObject([query |-> Str("alpha"), topK |-> Str("5")]),
          ArgsObject([query |-> Str("alpha"), verbose |-> Num(1)]),
          ArgsObject([query |-> Str("")]),
          ArgsObject([glob |-> Str("*.ts"), limit |-> Fraction])}
    \cup {ArgsObject([nodeId |-> Str(p)]) : p \in PathInputs}
    \cup {ArgsObject([nodeId |-> Str("foo.ts"), depth |-> Num(d)]) : d \in {0, 5, 6}}
    \cup {ArgsObject([glob |-> Str(g)]) : g \in {"*.ts", "**", "f??.ts", "*.md"}}
    \cup {ArgsObject([glob |-> Str(g), limit |-> Num(l)]) :
             g \in {"**", "*.ts"}, l \in {0, 1, 2, 1000, 1001}}
NameInputs == {TOOL_DEFINITIONS[i] : i \in 1..Len(TOOL_DEFINITIONS)}
              \cup {"frobnicate", "", "custom"}
RegistryInputs == {toolRegistry,
                   registerTool(toolRegistry, "custom", "throws"),
                   registerTool(toolRegistry, "custom", "returns"),
                   createToolRegistry("/tmp", [search |-> FALSE])}

RootInputs == {repoPath, "/tmp"}
SourceInputs ==
    {[path |-> p, startLine |-> r[1], endLine |-> r[2]] :
        p \in {"foo.ts", "missing.ts", "", "../repo/foo.ts",
                "../repo-evil/secret.ts", "../../etc/passwd"},
        r \in {<<1, 1>>, <<0, 1>>, <<2, 1>>, <<1, MaxLineArg>>}}

\* citations with 1 <= startLine <= endLine, and lists of them
CitationInputs ==
    {[path |-> p, startLine |-> r[1], endLine |-> r[2]] :
        p \in {"foo.ts", "src/util.ts"},
        r \in {<<1, 1>>, <<1, MaxLineArg>>, <<10, 25>>}}
CitationLists == SeqsUpTo(CitationInputs, MaxSources)
\* a Sources section whose body is the rendering of the list
RenderedSection(sources) == "## Sources\n" \o formatSources(sources)
\* answers as the tests of the parser write them, and rendered lists
MarkdownInputs ==
    {RenderedSection(cs) : cs \in CitationLists}
    \cup {"\n# Answer\n\nSome content here.\n\n## Sources\n- 'src/index.ts':10-25\n- 'src/utils.ts':1-15\n",
          "\n# Answer\n\nNo sources here.\n",
          "\n## Sources\n* 'file.ts':1-10\n",
          "\n## Sources\n- Invalid format\n- 'file.ts':10-20\n- Also invalid\n",
          "## sources\n- 'foo.ts':0-2\n- 'foo.ts':2-1\n## Notes\n- 'big.ts':1-1",
          "Answer.\n\n##  SOURCES \n\n- 'foo.ts':1-3 * 'big.ts' : 2 - 2",
          "## Sources\n- 'foo.ts':1-3\n- 'foo.ts':0-1\n- 'big.ts':1-2\n- 'a':3-2\n",
          "## Sources\n\n(No verified sources available)"}

\* final answers, as lines
AnswerInputs ==
    { <<TextLine>>,
      <<TextLine, BlankLine, SourcesHeader>>,
      <<TextLine, SourcesHeader, TextLine>>,
      <<TextLine, SourcesHeader, BlankLine, CiteLine("foo.ts", 1, 3)>>,
      <<SourcesHeader, CiteLine("foo.ts", 1, 3), CiteLine("big.ts", 2, 2)>>,
      <<SourcesHeader, CiteLine("foo.ts", 0, 1)>>,
      <<SourcesHeader, CiteLine("foo.ts", 1, 3), CiteLine("foo.ts", 0, 1),
        CiteLine("big.ts", 3, 2), TextLine, CiteLine("big.ts", 1, 1)>>,
      <<SourcesHeader, CiteLine("foo.ts", 3, 2), CiteLine("big.ts", 1, 1)>>,
      <<SourcesHeader, CiteLine("foo.ts", 1, 3), OtherHeader, CiteLine("big.ts", 0, 1)>>,
      <<TextLine, CiteLine("foo.ts", 1, 3)>> }

\* contents of a response without tool invocations, as lines
ContentInputs ==
    Contents
    \cup {<<BlankLine, DoneLine, BlankLine, TextLine, BlankLine, SourcesHeader,
             CiteLine("foo.ts", 1, 3)>>,
          <<BlankLine, DoneLine, BlankLine, TextLine>>,
          <<DoneLine, BlankLine, BlankLine, TextLine, SourcesHeader, TextLine, BlankLine>>,
          <<DoneLine>>}

\* queries and limits of Indexer.search: the agent's tool executor passes the
\* topK of the LLM on as it is
QueryInputs == {"alpha", "beta", "beta gamma", " Beta  GAMMA ", "\"alpha\"", "ts",
                "gamma gamma beta", "nothing", "' \""}
TopKInputs == {-1, 0, 1, 2, 10}

OutputLengths == {0, 1, 99, 100, 101, 150, 8000, 8001, 20000}
BudgetInputs == {1, 50, 100, 101, 102, 150, 8000}

CallExecuteToolCall(registry, name, argsJson) ==
    /\ call.op = "none"
    /\ call' = [op |-> "executeToolCall", registry |-> registry, name |-> name,
                argsJson |-> argsJson]
    /\ ret' = Some(executeToolCall(registry, name, argsJson))
    /\ UNCHANGED <<run, tools, worktree, database, paused, legacy>>

CallVerifySources(sources, config) ==
    /\ call.op = "none"
    /\ call' = [op |-> "verifySources", sources |-> sources, config |-> config]
    /\ ret' = Some(verifySources(sources, config))
    /\ UNCHANGED <<run, tools, worktree, database, paused, legacy>>

CallTruncateOutput(output, maxChars) ==
    /\ call.op = "none"
    /\ call' = [op |-> "truncateOutput", output |-> output, maxChars |-> maxChars]
    /\ ret' = Some(truncateOutput(output, maxChars))
    /\ UNCHANGED <<run, tools, worktree, database, paused, legacy>>

CallParseSourcesFromMarkdown(answerMd) ==
    /\ call.op = "none"
    /\ call' = [op |-> "parseSourcesFromMarkdown", answerMd |-> answerMd]
    /\ ret' = Some(parseSourcesFromMarkdown(answerMd))
    /\ UNCHANGED <<run, tools, worktree, database, paused, legacy>>

CallVerifySourcesInAnswerText(answerMd) ==
    /\ call.op = "none"
    /\ call' = [op |-> "verifySourcesInAnswer(text)", answerMd |-> answerMd]
    /\ ret' = Some(verifySourcesInAnswerText(answerMd))
    /\ UNCHANGED <<run, tools, worktree, database, paused, legacy>>

CallSearch(query, topK) ==
    /\ call.op = "none"
    /\ call' = [op |-> "search", query |-> query, topK |-> topK]
    /\ ret' = Some(search(query, topK))
    /\ UNCHANGED <<run, tools, worktree, database, paused, legacy>>

CallVerifySourcesInAnswer(answerMd) ==
    /\ call.op = "none"
    /\ call' = [op |-> "verifySourcesInAnswer", answerMd |-> answerMd]
    /\ ret' = Some(verifySourcesInAnswer(answerMd))
    /\ UNCHANGED <<run, tools, worktree, database, paused, legacy>>

CallVerifyMarkdownSources(answerMd, root) ==
    /\ call.op = "none"
    /\ call' = [op |-> "verifyMarkdownSources", answerMd |-> answerMd, repoPath |-> root]
    /\ ret' = Some(verifyMarkdownSources(answerMd, root))
    /\ UNCHANGED <<run, tools, worktree, database, paused, legacy>>

CallParseResponse(content, toolCalls) ==
    /\ call.op = "none"
    /\ call' = [op |-> "parseResponse", content |-> content, toolCalls |-> toolCalls]
    /\ ret' = Some(parseResponse(content, toolCalls))
    /\ UNCHANGED <<run, tools, worktree, database, paused, legacy>>

\* the inputs a direct call is drawn from: none once the call has been made
Idle(inputs) == IF call.op = "none" THEN inputs ELSE {}
SourceLists == SeqsUpTo(SourceInputs, MaxSources)

LibraryNext ==
    \/ \E registry \in Idle(RegistryInputs), name \in NameInputs, argsJson \in ArgInputs :
          CallExecuteToolCall(registry, name, argsJson)
    \/ \E sources \in Idle(SourceLists), root \in RootInputs :
          CallVerifySources(sources, [repoPath |-> root])
    \/ \E n \in Idle(OutputLengths), maxChars \in BudgetInputs :
          CallTruncateOutput([k |-> "tool output", len |-> n], maxChars)
    \/ \E answerMd \in Idle(MarkdownInputs) :
          CallParseSourcesFromMarkdown(answerMd)
    \/ \E answerMd \in Idle(AnswerInputs) :
          CallVerifySourcesInAnswer(answerMd)
    \/ \E query \in Idle(QueryInputs), topK \in TopKInputs :
          CallSearch(query, topK)
    \/ \E answerMd \in Idle(MarkdownInputs) :
          CallVerifySourcesInAnswerText(answerMd)
    \/ \E answerMd \in Idle(MarkdownInputs), root \in RootInputs :
          CallVerifyMarkdownSources(answerMd, root)
    \/ \E content \in Idle(ContentInputs), toolCalls \in {<<>>, <<CHOOSE inv \in Invocations : inv.id = "call_1">>} :
          CallParseResponse(content, toolCalls)

\* the run is configured and never started
LibraryInit == Init /\ maxSteps = 0
LibrarySpec == LibraryInit /\ [][LibraryNext]_vars

\* ------------------------------------------------ one index, many runs
\* An Indexer on a fresh database; indexRepository and search are called in
\* any order while files of the repository are written and their permissions
\* changed.
Writable == {<<"", "a.ts">>, <<"src", "b.ts">>}
Texts == {"alpha", "beta"}
\* the files whose permission changes
Protected == {<<"", "a.ts">>}

NewIndexer(recursive_triggers) ==
    /\ ~database.open
    /\ database' = EmptyDatabase(recursive_triggers)
    /\ call' = [op |-> "new Indexer"]
    /\ ret' = Undefined
    /\ UNCHANGED <<run, tools, worktree, paused, legacy>>

WriteFile(f, text) ==
    /\ IF f \in DOMAIN worktree.files THEN worktree.files[f].text # text ELSE TRUE
    /\ worktree' = [worktree EXCEPT !.files = (f :> File(text)) @@ @]
    /\ UNCHANGED <<run, tools, database, call, ret, paused, legacy>>

ChmodFile(f, readable) ==
    /\ f \in DOMAIN worktree.files
    /\ worktree.files[f].readable # readable
    /\ worktree' = [worktree EXCEPT !.files[f].readable = readable]
    /\ UNCHANGED <<run, tools, database, call, ret, paused, legacy>>

ChmodDir(d, readable) ==
    /\ worktree.dirs[d] # readable
    /\ worktree' = [worktree EXCEPT !.dirs[d] = readable]
    /\ UNCHANGED <<run, tools, database, call, ret, paused, legacy>>

IndexRepository ==
    /\ database.open
    /\ database.sqlite_sequence + Cardinality(Writable) <= MaxRowId
    /\ \E outcome \in {indexRepository(database, worktree)} :
          /\ database' = outcome.db
          /\ call' = [op |-> "indexRepository"]
          /\ ret' = Some(IF outcome.threw THEN [threw |-> TRUE]
                         ELSE [threw |-> FALSE, indexed |-> outcome.indexed,
                               skipped |-> outcome.skipped])
    /\ UNCHANGED <<run, tools, worktree, paused, legacy>>

Search(query, topK) ==
    /\ database.open
    /\ call' = [op |-> "Indexer.search", query |-> query, topK |-> topK]
    /\ ret' = Some(searchRows(database.files, database.files_fts, query, topK))
    /\ UNCHANGED <<run, tools, worktree, database, paused, legacy>>

IndexNext ==
    \/ \E recursive_triggers \in BOOLEAN : NewIndexer(recursive_triggers)
    \/ \E f \in Writable, text \in Texts : WriteFile(f, text)
    \/ \E f \in Protected, readable \in BOOLEAN : ChmodFile(f, readable)
    \/ \E readable \in BOOLEAN : ChmodDir("src", readable)
    \/ IndexRepository
    \/ \E query \in Texts : Search(query, 10)

IndexSpec == LibraryInit /\ [][IndexNext]_vars

\* ------------------------------------------------- one registry, many calls
\* A ToolRegistry made by createToolRegistry, on which registerTool and
\* executeToolCall are called in any order.
thisRegistry == [tools |-> tools, context |-> toolRegistry.context]
RegisterNames == {"custom", "extra", "list_files"}
HandlerInputs == {"returns", "throws"}
ExecuteNames == RegisterNames \cup {"get_excerpt", "frobnicate"}
ExecuteArgs == {NotJson, ArgsObject(NoFields), ExcerptArgs("foo.ts", 1, 2)}

RegisterTool(name, h) ==
    /\ tools' = registerTool(thisRegistry, name, h).tools
    /\ call' = [op |-> "registerTool", name |-> name, handler |-> h]
    /\ ret' = Undefined
    /\ UNCHANGED <<run, worktree, database, paused, legacy>>

ExecuteToolCall(name, argsJson) ==
    /\ \E toolResult \in {executeToolCall(thisRegistry, name, argsJson)} :
          /\ call' = [op |-> "executeToolCall", registry |-> thisRegistry,
                      name |-> name, argsJson |-> argsJson]
          /\ ret' = Some(toolResult)
    /\ UNCHANGED <<run, tools, worktree, database, paused, legacy>>

RegistryNext ==
    \/ \E name \in RegisterNames, h \in HandlerInputs : RegisterTool(name, h)
    \/ \E name \in ExecuteNames, argsJson \in ExecuteArgs : ExecuteToolCall(name, argsJson)

RegistrySpec == LibraryInit /\ [][RegistryNext]_vars

\* ------------------------------------------------------ the legacy Agent
\* Agent.run of the legacy agent: its loop over LLM responses whose tool
\* calls are executed at once (executeTool is synchronous), final_answer
\* being one of the tools.
maxRetries == 2
\* the tool calls of a response: a final_answer with sources that verify,
\* one with a source that does not exist, one without sources, a read_file,
\* and a call whose arguments are not JSON
LegacyToolCalls ==
    { [id |-> "call_a", name |-> "final_answer", isJson |-> TRUE,
       sources |-> Some(<<[path |-> "foo.ts", startLine |-> 1, endLine |-> 3]>>)],
      [id |-> "call_b", name |-> "final_answer", isJson |-> TRUE,
       sources |-> Some(<<[path |-> "missing.ts", startLine |-> 1, endLine |-> 1]>>)],
      [id |-> "call_c", name |-> "final_answer", isJson |-> TRUE, sources |-> Undefined],
      [id |-> "call_d", name |-> "read_file", isJson |-> TRUE, sources |-> Undefined],
      [id |-> "call_e", name |-> "read_file", isJson |-> FALSE, sources |-> Undefined] }
LegacyResponses ==
    {[content |-> c, toolCalls |-> <<>>] : c \in {"", "text"}}
    \cup {[content |-> "", toolCalls |-> tc] :
             tc \in SeqsUpTo(LegacyToolCalls, MaxCallsPerResponse) \ {<<>>}}
\* executeTool (agent/tools.ts:35-58, 181-189): final_answer hands back the
\* answer and the sources of its arguments
executeTool(toolCall) ==
    IF toolCall.name = "final_answer"
    THEN [content |-> [k |-> "answer"], isError |-> FALSE, isFinalAnswer |-> TRUE,
          sources |-> toolCall.sources]
    ELSE [content |-> [k |-> "tool output", toolName |-> toolCall.name],
          isError |-> FALSE, isFinalAnswer |-> FALSE, sources |-> Undefined]
LegacyReturn(answer, sources, success, err) ==
    [legacy EXCEPT !.pc = "returned",
                   !.result = Some([answer |-> answer, sources |-> sources,
                                    steps |-> legacy.steps, success |-> success,
                                    error |-> err])]
LegacyFrame == UNCHANGED <<run, call, ret, tools, worktree, database, paused>>

\* `while (steps < this.config.maxSteps)` holds: steps++ and llm.chat
LegacyCallLLM ==
    /\ legacy.pc = "loop"
    /\ legacy.steps < maxSteps
    /\ legacy' = [legacy EXCEPT !.steps = @ + 1, !.pc = "chat"]
    /\ LegacyFrame
\* the loop test fails
LegacyExceeded ==
    /\ legacy.pc = "loop"
    /\ ~(legacy.steps < maxSteps)
    /\ legacy' = LegacyReturn("", <<>>, FALSE, Some("Exceeded maximum steps"))
    /\ LegacyFrame
\* llm.chat returns `response`
LegacyChatReturns(response) ==
    /\ legacy.pc = "chat"
    /\ legacy' =
          IF Len(response.toolCalls) = 0
          THEN (IF response.content # ""
                THEN LegacyReturn(response.content, <<>>, FALSE,
                                  Some("No sources provided in response"))
                ELSE [legacy EXCEPT !.pc = "loop"])
          ELSE [legacy EXCEPT
                   !.messages = Append(@, [role |-> "assistant",
                                           toolCalls |-> response.toolCalls]),
                   !.pending = response.toolCalls,
                   !.pc = "tools"]
    /\ LegacyFrame
\* llm.chat throws: the catch returns
LegacyChatThrows ==
    /\ legacy.pc = "chat"
    /\ legacy' = LegacyReturn("", <<>>, FALSE, Some("error.message"))
    /\ LegacyFrame
\* one turn of `for (const toolCall of response.toolCalls)`: parseToolArgs,
\* executeTool, the tool message, and for a final answer the verification
LegacyTool ==
    /\ legacy.pc = "tools"
    /\ LET toolCall == Head(legacy.pending)
           toolResult == executeTool(toolCall)
           next == IF Tail(legacy.pending) = <<>> THEN "loop" ELSE "tools"
           told == [legacy EXCEPT
                       !.messages = Append(@, [role |-> "tool",
                                               content |-> toolResult.content,
                                               toolCallId |-> toolCall.id]),
                       !.pending = Tail(@), !.pc = next]
       IN legacy' =
             IF ~toolCall.isJson
             THEN LegacyReturn("", <<>>, FALSE, Some("Failed to parse tool arguments"))
             ELSE IF ~(toolResult.isFinalAnswer /\ toolResult.sources.set) THEN told
             ELSE IF verifySources(toolResult.sources.v, [repoPath |-> repoPath]).valid
             THEN [told EXCEPT !.pc = "returned",
                               !.result = Some([answer |-> "answer",
                                                sources |-> toolResult.sources.v,
                                                steps |-> legacy.steps, success |-> TRUE,
                                                error |-> Undefined])]
             ELSE IF legacy.retryCount < maxRetries
             THEN [told EXCEPT
                      !.retryCount = @ + 1,
                      !.messages = Append(@, [role |-> "user",
                            content |-> [k |-> "verification error prompt",
                                         errors |-> verifySources(toolResult.sources.v,
                                                       [repoPath |-> repoPath]).errors]])]
             ELSE [told EXCEPT !.pc = "returned",
                               !.result = Some([answer |-> "answer",
                                                sources |-> toolResult.sources.v,
                                                steps |-> legacy.steps, success |-> FALSE,
                                                error |-> Some("Source verification failed")])]
    /\ LegacyFrame

LegacyNext ==
    \/ LegacyCallLLM
    \/ LegacyExceeded
    \/ \E response \in LegacyResponses : LegacyChatReturns(response)
    \/ LegacyChatThrows
    \/ LegacyTool
LegacySpec == Init /\ [][LegacyNext]_vars

\* ------------------------------------------------------- two runs at once
\* Two calls of runAgent in one process, each with its own Indexer and its
\* own ToolRegistry (tools.ts:234-240). JavaScript runs one of them at a time
\* and changes over where the running one awaits: llmProvider.chat,
\* executeToolCall, or after its return. The variables of the run model are
\* the locals of the run that works; `paused` holds the locals of the other.
\* maxSteps of both runs
PairMaxSteps == 1
\* the locals of the run `id`, the working one
RunRecord(id) ==
    [id |-> id, toolRegistry |-> tools,
     maxSteps |-> maxSteps,
     pc |-> pc,
     currentStep |-> currentStep,
     messages |-> messages,
     steps |-> steps,
     gatheredEvidence |-> gatheredEvidence,
     finalAnswer |-> finalAnswer,
     verified |-> verified,
     verifiedSources |-> verifiedSources,
     error |-> error,
     pending |-> pending,
     request |-> request,
     chatCalls |-> chatCalls,
     toolRuns |-> toolRuns,
     inflight |-> inflight,
     closed |-> closed,
     doneEmitted |-> doneEmitted]
\* the locals at the start of runAgent
InitialRun(id, m) ==
    [id |-> id, toolRegistry |-> toolRegistry.tools,
     maxSteps |-> m, pc |-> "loop", currentStep |-> 0,
     messages |-> <<[role |-> "system", content |-> generateSystemPrompt(m)],
                    [role |-> "user", content |-> [k |-> "question"]]>>,
     steps |-> <<>>, gatheredEvidence |-> <<>>, finalAnswer |-> Undefined,
     verified |-> FALSE, verifiedSources |-> <<>>, error |-> Undefined,
     pending |-> <<>>, request |-> Undefined,
     chatCalls |-> [main |-> 0, forced |-> 0], toolRuns |-> 0, inflight |-> {},
     closed |-> 0, doneEmitted |-> FALSE]
PairInit ==
    /\ tools = InitialRun(1, PairMaxSteps).toolRegistry
    /\ maxSteps = InitialRun(1, PairMaxSteps).maxSteps
    /\ pc = InitialRun(1, PairMaxSteps).pc
    /\ currentStep = InitialRun(1, PairMaxSteps).currentStep
    /\ messages = InitialRun(1, PairMaxSteps).messages
    /\ steps = InitialRun(1, PairMaxSteps).steps
    /\ gatheredEvidence = InitialRun(1, PairMaxSteps).gatheredEvidence
    /\ finalAnswer = InitialRun(1, PairMaxSteps).finalAnswer
    /\ verified = InitialRun(1, PairMaxSteps).verified
    /\ verifiedSources = InitialRun(1, PairMaxSteps).verifiedSources
    /\ error = InitialRun(1, PairMaxSteps).error
    /\ pending = InitialRun(1, PairMaxSteps).pending
    /\ request = InitialRun(1, PairMaxSteps).request
    /\ chatCalls = InitialRun(1, PairMaxSteps).chatCalls
    /\ toolRuns = InitialRun(1, PairMaxSteps).toolRuns
    /\ inflight = InitialRun(1, PairMaxSteps).inflight
    /\ closed = InitialRun(1, PairMaxSteps).closed
    /\ doneEmitted = InitialRun(1, PairMaxSteps).doneEmitted
    /\ paused = InitialRun(2, PairMaxSteps)
    /\ legacy = LegacyStart
    /\ call = [op |-> "none"]
    /\ ret = Undefined
    /\ worktree = InitialTree
    /\ database = NoDatabase

\* the run that works awaits or has returned
AtBoundary == inflight # {} \/ pc = "returned"
\* a change-over in which the evidence list is one list of the process
SwitchSharingEvidence ==
    /\ AtBoundary
    /\ paused.pc # "returned"
    /\ paused' = RunRecord(3 - paused.id)
    /\ tools' = paused.toolRegistry
    /\ maxSteps' = paused.maxSteps
    /\ pc' = paused.pc
    /\ currentStep' = paused.currentStep
    /\ messages' = paused.messages
    /\ steps' = paused.steps
    /\ finalAnswer' = paused.finalAnswer
    /\ verified' = paused.verified
    /\ verifiedSources' = paused.verifiedSources
    /\ error' = paused.error
    /\ pending' = paused.pending
    /\ request' = paused.request
    /\ chatCalls' = paused.chatCalls
    /\ toolRuns' = paused.toolRuns
    /\ inflight' = paused.inflight
    /\ closed' = paused.closed
    /\ doneEmitted' = paused.doneEmitted
    /\ UNCHANGED <<gatheredEvidence, call, ret, worktree, database, legacy>>
\* the event loop leaves the run that works and resumes the other
Switch ==
    /\ AtBoundary
    /\ paused.pc # "returned"
    /\ paused' = RunRecord(3 - paused.id)
    /\ tools' = paused.toolRegistry
    /\ maxSteps' = paused.maxSteps
    /\ pc' = paused.pc
    /\ currentStep' = paused.currentStep
    /\ messages' = paused.messages
    /\ steps' = paused.steps
    /\ gatheredEvidence' = paused.gatheredEvidence
    /\ finalAnswer' = paused.finalAnswer
    /\ verified' = paused.verified
    /\ verifiedSources' = paused.verifiedSources
    /\ error' = paused.error
    /\ pending' = paused.pending
    /\ request' = paused.request
    /\ chatCalls' = paused.chatCalls
    /\ toolRuns' = paused.toolRuns
    /\ inflight' = paused.inflight
    /\ closed' = paused.closed
    /\ doneEmitted' = paused.doneEmitted
    /\ UNCHANGED <<call, ret, worktree, database, legacy>>

PairNext ==
    \/ Next
    \/ Switch
PairSpec == PairInit /\ [][PairNext]_vars

\* ======================================================== properties checked
IsToolStep(s) == "toolName" \in DOMAIN s
IsRejectedStep(s) == s.isDone /\ ~s.verifierPassed
IsErrorStep(s) == s.modelMessageSummary.k = "Error"
LastStep == steps[Len(steps)]
OnDisk(c) == /\ c.path \in DOMAIN RepoFiles
             /\ 1 <= c.startLine
             /\ c.startLine <= c.endLine
             /\ c.endLine <= RepoFiles[c.path].lines

\* C1: a result with verified=true cites only files that exist under the
\* repository root, with 1 <= startLine <= endLine <= lines of the file.
C1_VerifiedCitationsOnDisk ==
    (pc = "returned" /\ result.verified)
        => \A i \in 1..Len(result.sources) : OnDisk(result.sources[i])

\* C2: a final answer rejected by the verifier at a step below maxSteps is
\* logged as a step with isDone=true and verifierPassed=false, is followed in
\* the transcript by the rejected reply as an assistant message and by a user
\* repair message listing every verifier error, and the next step of the run
\* is another LLM call with that extended transcript.
C2_RejectionIsRepaired ==
    [][ /\ (/\ pc = "chat"
            /\ currentStep < maxSteps
            /\ Len(steps') = Len(steps) + 1
            /\ IsRejectedStep(steps'[Len(steps')]))
           => /\ pc' = "loop"
              /\ steps'[Len(steps')].stepNo = currentStep
              /\ steps'[Len(steps')].verifierErrors # <<>>
              /\ Len(messages') = Len(messages) + 2
              /\ SubSeq(messages', 1, Len(messages)) = messages
              /\ messages'[Len(messages) + 1].role = "assistant"
              /\ messages'[Len(messages) + 1].content.k = "text"
              /\ messages'[Len(messages) + 1].content.lines[1] = DoneLine
              /\ messages'[Len(messages) + 2].role = "user"
              /\ messages'[Len(messages) + 2].content.k = "repair prompt"
              /\ messages'[Len(messages) + 2].content.errors
                    = steps'[Len(steps')].verifierErrors
        /\ (/\ pc = "loop"
            /\ currentStep < maxSteps
            /\ steps # <<>>
            /\ IsRejectedStep(LastStep)
            /\ LastStep.stepNo = currentStep)
           => /\ pc' = "chat"
              /\ currentStep' = currentStep + 1
              /\ messages' = messages
              /\ messages[Len(messages)].content.k = "repair prompt"
              /\ request'.set
              /\ request'.v.messages = messages
      ]_vars

\* C2 witness: the LLM call after a repair prompt is in flight
C2_Witness ==
    /\ pc = "chat"
    /\ steps # <<>>
    /\ IsRejectedStep(LastStep)
    /\ LastStep.stepNo = currentStep - 1
    /\ Len(LastStep.verifierErrors) >= 2
    /\ request.v.messages[Len(request.v.messages)].content.k = "repair prompt"

\* C3: every run returns, the step counter counts the main-loop LLM calls one
\* by one (tool turns, rejected answers and repair retries alike), so there
\* are at most maxSteps of them, plus at most one forced-termination call.
C3_Terminates ==
    /\ <>(pc = "returned")
    /\ [](/\ chatCalls.main = currentStep
          /\ currentStep <= maxSteps
          /\ chatCalls.forced <= 1)

\* C3 witness: a returned run that spent its whole budget on a tool turn and
\* a rejected answer and then made the forced call
C3_Witness ==
    /\ pc = "returned"
    /\ maxSteps >= 2
    /\ chatCalls.main = maxSteps
    /\ chatCalls.forced = 1
    /\ \E i \in 1..Len(steps) : IsToolStep(steps[i])
    /\ \E i \in 1..Len(steps) : ~IsToolStep(steps[i]) /\ IsRejectedStep(steps[i])

\* C4: the step log never holds more than maxSteps + 1 entries.
C4_StepLogBound == Len(steps) <= maxSteps + 1

\* C5: a response with no tool invocations that is not a final answer, at a
\* step below maxSteps, gets a step entry and the loop goes on.
C5_UnexpectedContinues ==
    [][ \A response \in Responses :
          (/\ currentStep < maxSteps
           /\ parseResponse(response.assistantText, response.toolCalls).type = "error"
           /\ ChatReturns(response))
          => /\ Len(steps') = Len(steps) + 1
             /\ pc' = "loop"
      ]_vars

\* C6: once a main-loop LLM call has thrown, the log holds exactly one error
\* step, the last entry, for the current stepNo; the loop has stopped; no
\* forced-termination call and no further main-loop call is made; error is
\* set and verified is false.
C6_ProviderErrorEndsRun ==
    (\E i \in 1..Len(steps) : IsErrorStep(steps[i]))
        => /\ Cardinality({i \in 1..Len(steps) : IsErrorStep(steps[i])}) = 1
           /\ IsErrorStep(LastStep)
           /\ LastStep.stepNo = currentStep
           /\ pc \in {"after", "cleanup", "returned"}
           /\ chatCalls.main = currentStep
           /\ chatCalls.forced = 0
           /\ error.set
           /\ ~verified

\* C7: a result with verified=false has a non-empty answerMd and an error.
C7_UnverifiedHasError ==
    (pc = "returned" /\ ~result.verified)
        => /\ result.answerMd # <<>>
           /\ result.error.set

\* C8: with maxSteps >= 1 and a provider that never emits a final answer, the
\* result is unverified, its error says that max steps were exceeded and its
\* answerMd is the synthesized fallback with '(No verified sources available)'
\* under '## Sources'.
C8_ExhaustionFallback ==
    (pc = "returned" /\ maxSteps >= 1 /\ ~doneEmitted)
        => /\ ~result.verified
           /\ result.error = Some(MaxStepsError(maxSteps))
           /\ result.answerMd = FallbackAnswer(maxSteps, gatheredEvidence)

\* the assistant message that the message at index j answers to: the nearest
\* assistant message before it (0 when there is none)
NearestAssistant(j) ==
    LET as == {i \in 1..(j - 1) : messages[i].role = "assistant"}
    IN IF as = {} THEN 0 ELSE CHOOSE i \in as : \A k \in as : k <= i
HasToolCalls(m) == "toolCalls" \in DOMAIN m
\* number of tool messages directly after the message at index i
RECURSIVE ToolRun(_)
ToolRun(i) == IF i < Len(messages) /\ messages[i + 1].role = "tool"
              THEN 1 + ToolRun(i + 1) ELSE 0

\* C9: the transcript starts with the system message and the user question;
\* every tool message answers, by id and by position, an invocation of the
\* nearest assistant message before it; whenever no tool loop is running
\* (so at every LLM call) every invocation has its tool message, in order.
C9_TranscriptCausalOrder ==
    /\ Len(messages) >= 2
    /\ messages[1].role = "system"
    /\ messages[2].role = "user" /\ messages[2].content.k = "question"
    /\ \A j \in 1..Len(messages) :
          messages[j].role = "tool"
            => LET i == NearestAssistant(j)
               IN /\ i > 0
                  /\ HasToolCalls(messages[i])
                  /\ j - i <= Len(messages[i].toolCalls)
                  /\ \A k \in (i + 1)..j : messages[k].role = "tool"
                  /\ messages[j].toolCallId = messages[i].toolCalls[j - i].id
    /\ \A i \in 1..Len(messages) :
          (messages[i].role = "assistant" /\ HasToolCalls(messages[i]))
            => ToolRun(i) = IF pc = "tools" /\ NearestAssistant(Len(messages) + 1) = i
                            THEN Len(messages[i].toolCalls) - Len(pending)
                            ELSE Len(messages[i].toolCalls)
    /\ pc \in {"chat", "forced"} => request.v.messages = messages

\* C9 witness: an LLM call in flight after a turn with two invocations, one
\* of them failed
C9_Witness ==
    /\ pc = "chat"
    /\ \E i \in 1..Len(messages) :
          /\ messages[i].role = "assistant"
          /\ HasToolCalls(messages[i])
          /\ Len(messages[i].toolCalls) >= 2
          /\ messages[i].toolCalls[1].id # messages[i].toolCalls[2].id
          /\ ToolRun(i) = 2

\* C10: the entry after a tool entry of the step log has a larger stepNo.
C10_ToolStepThenLargerStepNo ==
    \A i \in 1..(Len(steps) - 1) :
        IsToolStep(steps[i]) => steps[i + 1].stepNo > steps[i].stepNo

\* position, in the response of the assistant message at index i, of the
\* invocation that the awaited tool call c executes
PositionOf(i, c) == Len(messages[i].toolCalls) - c.remaining + 1

\* C11: the invocations of a response are executed one at a time, in emission
\* order: while invocation number p runs, the transcript ends with the
\* results of invocations 1..p-1 of that response and nothing else is in
\* flight; no LLM call is in flight while a tool runs, so at most one LLM call
\* or tool invocation is in flight at any instant.
C11_SerialToolExecution ==
    /\ Cardinality(inflight) <= 1
    /\ \A c \in inflight :
          /\ c.kind = "llm" => pc = (IF c.call = "main" THEN "chat" ELSE "forced")
          /\ c.kind = "tool" =>
                LET i == NearestAssistant(Len(messages) + 1)
                IN /\ pc = "tools"
                   /\ i > 0
                   /\ HasToolCalls(messages[i])
                   /\ PositionOf(i, c) \in 1..Len(messages[i].toolCalls)
                   /\ messages[i].toolCalls[PositionOf(i, c)] = c.toolCall
                   /\ ToolRun(i) = PositionOf(i, c) - 1
                   /\ Len(messages) = i + PositionOf(i, c) - 1

\* C11 witness: the second invocation of a response runs, after the result
\* of the first one was appended
C11_Witness ==
    \E c \in inflight :
        /\ c.kind = "tool"
        /\ messages[Len(messages)].role = "tool"
        /\ PositionOf(NearestAssistant(Len(messages) + 1), c) = 2

\* C12: a run that has returned has closed the index handle exactly once, a
\* run that has not returned has not closed it, and once it is closed no LLM
\* call and no tool invocation is made or in flight.
C12_ClosedExactlyOnce ==
    /\ [](/\ closed = (IF pc = "returned" THEN 1 ELSE 0)
          /\ closed >= 1 => inflight = {})
    /\ [][closed >= 1 => (/\ chatCalls' = chatCalls
                          /\ toolRuns' = toolRuns
                          /\ inflight' = inflight)]_vars

\* C12 witness: a run that ended with a provider error has returned with
\* the handle closed
C12_Witness ==
    /\ pc = "returned"
    /\ closed = 1
    /\ error.set
    /\ chatCalls.main >= 1

\* the definition registered under a name that is registered
ToolNamed(registry, name) ==
    registry.tools[CHOOSE i \in 1..Len(registry.tools) : registry.tools[i].name = name]
\* an awaited tool call settles in the step
Settles(c) == c \in inflight /\ c.kind = "tool" /\ c \notin inflight'
\* the message appended by the step
Appended == messages'[Len(messages')]

\* C13: executeToolCall returns a ToolResult for every name and every
\* argument input and its promise never rejects; an unknown name, arguments
\* that are not JSON, arguments that fail the schema and a handler that throws
\* each give success=false with an error string.
C13_ExecuteToolCallNeverThrows ==
    call.op = "executeToolCall" =>
        LET r == ret.v
            known == hasTool(call.registry, call.name)
            tool == ToolNamed(call.registry, call.name)
            json == call.argsJson.json
            valid == safeParse(tool.schema, call.argsJson).success
        IN /\ ~r.threw
           /\ {"success", "data", "outputSummary"} \subseteq DOMAIN r
           /\ r.success \in BOOLEAN
           /\ ~r.success => ("error" \in DOMAIN r /\ r.error # "")
           /\ ~known => (~r.success /\ r.error = "Unknown tool")
           /\ (known /\ ~json) => (~r.success /\ r.error = "Invalid JSON arguments")
           /\ (known /\ json /\ ~valid) => (~r.success /\ r.error = "Validation failed")
           /\ (known /\ json /\ valid /\ tool.handler = "throws")
                 => (~r.success /\ r.error = "handler failed")

\* C13 witness: a call of a registered tool whose handler threw has returned
C13_Witness ==
    /\ call.op = "executeToolCall"
    /\ hasTool(call.registry, call.name)
    /\ ToolNamed(call.registry, call.name).handler = "throws"
    /\ ret.v.invoked
    /\ ~ret.v.success

\* C14: for a name that is not registered executeToolCall calls no handler
\* and returns success=false, an error with 'Unknown tool' and a summary that
\* names the tool and lists every registered name; in a run that summary is
\* the tool message of the invocation, no error is set and the loop goes on.
C14_UnknownTool ==
    /\ \A registry \in RegistryInputs, name \in NameInputs, argsJson \in ArgInputs :
          ~hasTool(registry, name) =>
             LET r == executeToolCall(registry, name, argsJson)
             IN /\ ~r.threw /\ ~r.invoked /\ ~r.success
                /\ r.error = "Unknown tool"
                /\ r.outputSummary.k = "Unknown tool"
                /\ r.outputSummary.name = name
                /\ \A i \in 1..Len(registry.tools) :
                      \E j \in 1..Len(r.outputSummary.available) :
                          r.outputSummary.available[j] = registry.tools[i].name
    /\ [][\A c \in inflight :
            (Settles(c) /\ ~hasTool(toolRegistry, c.toolCall.name))
              => /\ Len(messages') = Len(messages) + 1
                 /\ Appended.role = "tool"
                 /\ Appended.toolCallId = c.toolCall.id
                 /\ Appended.content.k = "Unknown tool"
                 /\ Appended.content.name = c.toolCall.name
                 /\ \A i \in 1..Len(toolRegistry.tools) :
                       \E j \in 1..Len(Appended.content.available) :
                           Appended.content.available[j] = toolRegistry.tools[i].name
                 /\ pc' \in {"tools", "loop"}
                 /\ ~error'.set
                 /\ gatheredEvidence' = gatheredEvidence
       ]_vars

\* C14 witness: the LLM is called again with the answer to an unknown tool
C14_Witness ==
    /\ pc = "chat"
    /\ messages[Len(messages)].role = "tool"
    /\ messages[Len(messages)].content.k = "Unknown tool"
    /\ request.v.messages = messages

\* argument objects that violate the schema of their tool: a missing field,
\* a wrong type, a number out of range
ViolatingArgs ==
    [get_excerpt |->
        {ExcerptArgs("foo.ts", 0, 2), ExcerptArgs("foo.ts", -1, 2),
         ExcerptArgs("foo.ts", 1, 0), ExcerptArgs("", 1, 2), ArgsObject(NoFields),
         ArgsObject([path |-> Str("foo.ts"), startLine |-> Num(1)]),
         ArgsObject([path |-> Num(1), startLine |-> Num(1), endLine |-> Num(1)]),
         ArgsObject([path |-> Str("foo.ts"), startLine |-> Str("1"), endLine |-> Num(2)]),
         ArgsObject([path |-> Str("foo.ts"), startLine |-> Fraction, endLine |-> Num(2)])},
     search_chunks |->
        {ArgsObject(NoFields), ArgsObject([query |-> Str("")]),
         ArgsObject([query |-> Str("alpha"), topK |-> Num(0)]),
         ArgsObject([query |-> Str("alpha"), topK |-> Num(51)])},
     graph_neighbors |->
        {ArgsObject(NoFields),
         ArgsObject([nodeId |-> Str("foo.ts"), depth |-> Num(0)]),
         ArgsObject([nodeId |-> Str("foo.ts"), depth |-> Num(6)])},
     list_files |->
        {ArgsObject(NoFields),
         ArgsObject([glob |-> Str("**"), limit |-> Num(0)]),
         ArgsObject([glob |-> Str("**"), limit |-> Num(1001)])}]

\* C15: for a registered tool and an argument object that violates its schema
\* executeToolCall does not call the handler and returns success=false with
\* an error 'Validation failed'; in a run the result becomes the tool
\* message, no error is set and the loop goes on.
C15_ValidationFailure ==
    /\ \A name \in DOMAIN ViolatingArgs : \A argsJson \in ViolatingArgs[name] :
          LET r == executeToolCall(toolRegistry, name, argsJson)
          IN ~r.threw /\ ~r.invoked /\ ~r.success /\ r.error = "Validation failed"
    /\ \A registry \in RegistryInputs, name \in NameInputs, argsJson \in ArgInputs :
          (/\ hasTool(registry, name)
           /\ argsJson.json
           /\ ~safeParse(ToolNamed(registry, name).schema, argsJson).success)
            => LET r == executeToolCall(registry, name, argsJson)
               IN ~r.threw /\ ~r.invoked /\ ~r.success /\ r.error = "Validation failed"
    /\ [][\A c \in inflight :
            (/\ Settles(c)
             /\ c.toolCall.name \in DOMAIN ViolatingArgs
             /\ c.toolCall.argumentsJson \in ViolatingArgs[c.toolCall.name])
              => /\ Len(messages') = Len(messages) + 1
                 /\ Appended.role = "tool"
                 /\ Appended.toolCallId = c.toolCall.id
                 /\ Appended.content.k = "Invalid arguments"
                 /\ pc' \in {"tools", "loop"}
                 /\ ~error'.set
                 /\ gatheredEvidence' = gatheredEvidence
       ]_vars

\* C15 witness: the LLM is called again with the answer to a get_excerpt
\* whose startLine was 0
C15_Witness ==
    /\ pc = "chat"
    /\ messages[Len(messages)].role = "tool"
    /\ messages[Len(messages)].content.k = "Invalid arguments"
    /\ messages[Len(messages)].content.errors = <<"startLine">>
    /\ request.v.messages = messages

\* the normalized path is the root or lies under it
Inside(root, p) == resolve(p) = resolve(root) \/ Under(root, p)
\* the direct call is a call of the built-in tool `name` with valid arguments
BuiltinCall(name) ==
    /\ call.op = "executeToolCall"
    /\ call.name = name
    /\ hasTool(call.registry, name)
    /\ ToolNamed(call.registry, name).handler = name
    /\ call.argsJson.json
    /\ safeParse(name, call.argsJson).success
CallRoot == call.registry.context.repoPath
CallData == safeParse(call.name, call.argsJson).data

\* C16: verifySources answers valid=false, with an error 'path outside
\* repository' for that source, whenever a source with a well-formed line
\* range has a path that begins with '../' and leaves the repository root,
\* whatever the root and whatever lies next to it.
C16_ParentPathsRejected ==
    call.op = "verifySources" =>
        \A i \in 1..Len(call.sources) :
            LET c == call.sources[i]
            IN (/\ StartsWith(c.path, "../")
                /\ 1 <= c.startLine /\ c.startLine <= c.endLine
                /\ ~Inside(call.config.repoPath, join(call.config.repoPath, c.path)))
                 => /\ ~ret.v.valid
                    /\ \E j \in 1..Len(ret.v.errors) :
                          /\ ret.v.errors[j].k = "path outside repository"
                          /\ ret.v.errors[j].path = c.path

\* C17: a successful result of a built-in handler read no file outside the
\* repository root and names none, and a get_excerpt or graph_neighbors
\* request whose path leaves the root fails with 'path outside repository'.
C17_HandlersStayInside ==
    \A name \in {TOOL_DEFINITIONS[i] : i \in 1..Len(TOOL_DEFINITIONS)} :
        BuiltinCall(name) =>
            LET r == ret.v
                requested == IF name = "get_excerpt" THEN {CallData.path}
                             ELSE IF name = "graph_neighbors" THEN {CallData.nodeId}
                             ELSE {}
                reported ==
                    IF name = "get_excerpt" THEN {r.data.path}
                    ELSE IF name = "graph_neighbors"
                    THEN {r.data[i].id : i \in {j \in 1..Len(r.data) : r.data[j].type = "file"}}
                    ELSE IF name \in {"search_chunks", "list_files"}
                    THEN {r.data[i].path : i \in 1..Len(r.data)}
                    ELSE {}
            IN /\ r.success => \A p \in r.reads : Inside(CallRoot, p)
               /\ r.success => \A p \in reported : Inside(CallRoot, join(CallRoot, p))
               /\ \A p \in requested :
                     ~Inside(CallRoot, join(CallRoot, p))
                       => /\ ~r.success
                          /\ r.outputSummary.k = "Access denied: path outside repository"

C19_ExcerptBudget ==
    (BuiltinCall("get_excerpt") /\ call.registry = toolRegistry /\ ret.v.success)
        => Len(ret.v.data.numbers) <= maxExcerptLines

\* C20: the text that becomes the tool message is at most maxToolOutputChars
\* long, for every budget of at least 1, and a summary within the budget is
\* left as it is.
C20_ToolOutputBudget ==
    (call.op = "truncateOutput" /\ call.maxChars >= 1)
        => /\ ret.v.len <= call.maxChars
           /\ call.output.len <= call.maxChars => ret.v = call.output

\* C21: list_files succeeds with at most `limit` entries, which are the first
\* matching files in the order of the walk, and the walk looks at no entry
\* after the one that filled the limit.
C21_ListFilesLimit ==
    BuiltinCall("list_files") =>
        LET r == ret.v
            limit == CallData.limit
            walked == Walk(CallRoot)
            matching == SelectSeq(walked, LAMBDA f : matchGlob(f, CallData.glob))
        IN /\ r.success
           /\ limit \in 1..1000
           /\ Len(r.data) <= limit
           /\ Len(r.data) = Min(limit, Len(matching))
           /\ \A i \in 1..Len(r.data) : r.data[i].path = matching[i]
           /\ Len(r.data) = limit => walked[r.visited] = r.data[limit].path
           /\ Len(r.data) < limit => r.visited = Len(walked)

\* C21 witness: with limit 1 and several matching files one entry came back
\* and the walk stopped before the end of the tree
C21_Witness ==
    /\ BuiltinCall("list_files")
    /\ CallData.limit = 1
    /\ Len(ret.v.data) = 1
    /\ ret.v.visited < Len(Walk(CallRoot))

\* C22: parsing a Sources section whose body is formatSources(cs) gives back
\* cs, for every list cs of citations with 1 <= startLine <= endLine.
C22_CitationRoundTrip ==
    \A cs \in CitationLists :
        (call.op = "parseSourcesFromMarkdown" /\ call.answerMd = RenderedSection(cs))
            => ret.v = cs

\* the first check of the claimed order that a source fails, "" if none
FirstFailedCheck(c, root) ==
    LET fullPath == join(root, c.path)
    IN IF c.path = "" THEN "Source missing path"
       ELSE IF c.startLine < 1 THEN "startLine must be >= 1"
       ELSE IF c.endLine < c.startLine THEN "endLine must be >= startLine"
       ELSE IF ~Inside(root, fullPath) THEN "path outside repository"
       ELSE IF ~isFile(fullPath) THEN "file does not exist"
       ELSE IF c.startLine > lineCount(fullPath) THEN "startLine exceeds file length"
       ELSE IF c.endLine > lineCount(fullPath) THEN "endLine exceeds file length"
       ELSE ""

\* C23: verifySources([c], config) is valid with no errors exactly when c
\* has a path inside the root that names an existing file and 1 <= startLine
\* <= endLine <= line count; otherwise it is invalid and its first error is
\* that of the first failed check, in the order missing path, startLine >= 1,
\* endLine >= startLine, outside repository, file does not exist, exceeds
\* file length.
C23_VerifySingleSource ==
    (call.op = "verifySources" /\ Len(call.sources) = 1) =>
        LET failed == FirstFailedCheck(call.sources[1], call.config.repoPath)
        IN /\ ret.v.valid <=> failed = ""
           /\ ret.v.valid => ret.v.errors = <<>>
           /\ failed # "" => /\ ret.v.errors # <<>>
                             /\ ret.v.errors[1].k = failed

\* C24: the verifier of final answers reports valid exactly when it recorded no
\* error and extracted at least one citation; an answer without a Sources
\* header, or with a header and no citation, is invalid with no citation and
\* exactly one error; an answer whose Sources section holds a citation with an
\* invalid range next to well-formed ones is invalid.  The same verdict rule
\* holds for the verifier that checks the extracted citations against the disk.
InFirstSection(md, i) ==
    \E h \in 1..(i - 1) :
        /\ md[h] = SourcesHeader
        /\ \A j \in 1..(h - 1) : md[j] # SourcesHeader
        /\ \A j \in (h + 1)..i : ~StartsWithHashes(md[j])
SectionCitations(md) == {i \in 1..Len(md) : md[i].t = "cite" /\ InFirstSection(md, i)}
Malformed(line) == line.startLine < 1 \/ line.endLine < line.startLine
C25_InvalidRangeReported ==
    /\ call.op = "verifySourcesInAnswer" =>
          LET r == ret.v
              md == call.answerMd
              cited == SelectSeq(md, LAMBDA l : l \in {md[i] : i \in SectionCitations(md)})
              bad == SelectSeq(cited, LAMBDA l : Malformed(l))
              good == SelectSeq(cited, LAMBDA l : ~Malformed(l))
          IN /\ Len(r.sources) = Len(good)
             /\ \A i \in 1..Len(good) :
                   r.sources[i] = [path |-> good[i].path, startLine |-> good[i].startLine,
                                   endLine |-> good[i].endLine]
             /\ Len(bad) <= Len(r.errors)
             /\ \A i \in 1..Len(bad) :
                   /\ r.errors[i].k = "Invalid line range"
                   /\ r.errors[i].path = bad[i].path
    /\ call.op = "verifySources" =>
          \A i \in 1..Len(call.sources) :
              LET c == call.sources[i]
              IN (c.path # "" /\ (c.startLine < 1 \/ c.endLine < c.startLine)) =>
                    \E e \in 1..Len(ret.v.errors) :
                        /\ ret.v.errors[e].k \in {"startLine must be >= 1",
                                                  "endLine must be >= startLine"}
                        /\ ret.v.errors[e].path = c.path
C25_Witness ==
    /\ call.op = "verifySourcesInAnswer"
    /\ \E i, j \in SectionCitations(call.answerMd) :
          /\ i < j
          /\ Malformed(call.answerMd[i])
          /\ ~Malformed(call.answerMd[j])
          /\ \E k \in 1..Len(ret.v.sources) : ret.v.sources[k].path = call.answerMd[j].path
    /\ Len(ret.v.errors) >= 1

\* C26: a response without tool invocations whose content begins with blank
\* lines (or none) followed by the DONE marker is classified as a final answer,
\* and the answer handed on is the content after the marker with the
\* surrounding blank lines stripped.
MarkerLine(content) ==
    LET ms == {k \in 1..Len(content) :
                  /\ content[k] = DoneLine
                  /\ \A j \in 1..(k - 1) : content[j] = BlankLine}
    IN IF ms = {} THEN 0 ELSE CHOOSE k \in ms : TRUE
C26_DoneClassified ==
    (/\ call.op = "parseResponse"
     /\ call.toolCalls = <<>>
     /\ MarkerLine(call.content) > 0) =>
        /\ ret.v.type = "done"
        /\ ret.v.answerMd =
              Trim(SubSeq(call.content, MarkerLine(call.content) + 1, Len(call.content)))

\* C27: the validation of a built-in tool accepts an argument object exactly
\* when its declared fields are: search_chunks a non-empty string query and,
\* if given, an integer topK in 1..50 (10 if omitted); get_excerpt a non-empty
\* string path and integers startLine, endLine >= 1; graph_neighbors a
\* non-empty string nodeId and, if given, an integer depth in 1..5 (1 if
\* omitted); list_files a non-empty string glob and, if given, an integer
\* limit in 1..1000 (100 if omitted); get_repo_summary any object.  The handler
\* is invoked exactly for the accepted objects, with the declared fields and
\* the defaults filled in.
NonEmptyString(f, k) == k \in DOMAIN f /\ f[k].ty = "string" /\ f[k].v # ""
IntegerFrom(f, k, lo) == k \in DOMAIN f /\ f[k].ty = "number" /\ f[k].int /\ f[k].v >= lo
IntegerWithin(f, k, lo, hi) == IntegerFrom(f, k, lo) /\ f[k].v <= hi
Omitted(f, k) == k \notin DOMAIN f
Stated(name, f) ==
    CASE name = "search_chunks" ->
           [ok |-> NonEmptyString(f, "query")
                   /\ (Omitted(f, "topK") \/ IntegerWithin(f, "topK", 1, 50)),
            fields |-> {"query", "topK"}, defaults |-> [topK |-> 10]]
      [] name = "get_excerpt" ->
           [ok |-> NonEmptyString(f, "path") /\ IntegerFrom(f, "startLine", 1)
                   /\ IntegerFrom(f, "endLine", 1),
            fields |-> {"path", "startLine", "endLine"}, defaults |-> <<>>]
      [] name = "graph_neighbors" ->
           [ok |-> NonEmptyString(f, "nodeId")
                   /\ (Omitted(f, "depth") \/ IntegerWithin(f, "depth", 1, 5)),
            fields |-> {"nodeId", "depth"}, defaults |-> [depth |-> 1]]
      [] name = "list_files" ->
           [ok |-> NonEmptyString(f, "glob")
                   /\ (Omitted(f, "limit") \/ IntegerWithin(f, "limit", 1, 1000)),
            fields |-> {"glob", "limit"}, defaults |-> [limit |-> 100]]
      [] name = "get_repo_summary" ->
           [ok |-> TRUE, fields |-> {}, defaults |-> <<>>]
C27_SchemasAcceptExactly ==
    (/\ call.op = "executeToolCall"
     /\ hasTool(call.registry, call.name)
     /\ ToolNamed(call.registry, call.name).schema \in
           {TOOL_DEFINITIONS[i] : i \in 1..Len(TOOL_DEFINITIONS)}
     /\ call.argsJson.json) =>
        LET tool == ToolNamed(call.registry, call.name)
            validation == safeParse(tool.schema, call.argsJson)
        IN IF ~call.argsJson.object
           THEN ~validation.success /\ ~ret.v.invoked
           ELSE LET f == call.argsJson.fields
                    stated == Stated(tool.schema, f)
                IN /\ validation.success <=> stated.ok
                   /\ ret.v.invoked <=> stated.ok
                   /\ stated.ok =>
                         /\ DOMAIN validation.data = stated.fields
                         /\ \A k \in stated.fields :
                               validation.data[k] =
                                  IF k \in DOMAIN f THEN f[k].v ELSE stated.defaults[k]
C27_Witness ==
    /\ call.op = "executeToolCall"
    /\ call.name = "list_files"
    /\ call.registry = toolRegistry
    /\ call.argsJson.json /\ call.argsJson.object
    /\ DOMAIN call.argsJson.fields = {"glob"}
    /\ ret.v.invoked
    /\ safeParse("list_files", call.argsJson).data.limit = 100

\* C28: an argument object that satisfies the JSON Schema handed to the LLM
\* for a built-in tool is accepted by the validation of executeToolCall, and
\* that JSON Schema states the required fields, the default of every optional
\* field and the range of every numeric field of the validator.
\* a JSON value against a property of a JSON Schema, keyword by keyword
SatisfiesProperty(value, property) ==
    /\ property.type = "string" => value.ty = "string"
    /\ property.type = "number" => value.ty = "number"
    /\ property.type = "integer" => value.ty = "number" /\ value.int
    /\ "minLength" \in DOMAIN property => Len(value.v) >= property.minLength
    /\ ("minimum" \in DOMAIN property /\ value.int) => value.v >= property.minimum
    /\ ("maximum" \in DOMAIN property /\ value.int) => value.v <= property.maximum
SatisfiesSchema(args, jsonSchema) ==
    /\ args.json /\ args.object
    /\ "required" \in DOMAIN jsonSchema =>
          \A i \in 1..Len(jsonSchema.required) :
              jsonSchema.required[i] \in DOMAIN args.fields
    /\ "properties" \in DOMAIN jsonSchema =>
          \A k \in DOMAIN args.fields \cap DOMAIN jsonSchema.properties :
              SatisfiesProperty(args.fields[k], jsonSchema.properties[k])
ParametersOf(registry, name) ==
    LET schemas == getToolSchemas(registry)
    IN schemas[CHOOSE i \in 1..Len(schemas) : schemas[i].name = name].parameters
C28_JsonSchemaAgrees ==
    (/\ call.op = "executeToolCall"
     /\ hasTool(call.registry, call.name)
     /\ ToolNamed(call.registry, call.name).schema \in
           {TOOL_DEFINITIONS[i] : i \in 1..Len(TOOL_DEFINITIONS)}) =>
        LET tool == ToolNamed(call.registry, call.name)
            parameters == ParametersOf(call.registry, call.name)
            fields == shape(tool.schema)
        IN /\ SatisfiesSchema(call.argsJson, parameters) => ret.v.invoked
           /\ \A i \in 1..Len(fields) :
                 LET property == parameters.properties[fields[i].key]
                 IN /\ fields[i].hasDefault =>
                          /\ "default" \in DOMAIN property
                          /\ property.default = fields[i].default
                    /\ "min" \in DOMAIN fields[i] =>
                          /\ "minimum" \in DOMAIN property
                          /\ property.minimum = fields[i].min
                    /\ "max" \in DOMAIN fields[i] =>
                          /\ "maximum" \in DOMAIN property
                          /\ property.maximum = fields[i].max

\* C29: a fresh registry holds exactly the five built-in tools; after any
\* sequence of registerTool and executeToolCall calls no name is registered
\* twice, hasTool(n) holds exactly for the names of getToolNames(),
\* getToolSchemas() has one entry per name in the order of getToolNames(),
\* registerTool keeps the order of the names registered before and adds a new
\* name at the end, and executeToolCall leaves the registered tools as they are.
AnyName == RegisterNames \cup ExecuteNames
              \cup {TOOL_DEFINITIONS[i] : i \in 1..Len(TOOL_DEFINITIONS)}
RegistryConsistent ==
    LET names == getToolNames(thisRegistry)
        schemas == getToolSchemas(thisRegistry)
    IN /\ \A i, j \in 1..Len(names) : names[i] = names[j] => i = j
       /\ \A n \in AnyName :
             hasTool(thisRegistry, n) <=> \E i \in 1..Len(names) : names[i] = n
       /\ Len(schemas) = Len(names)
       /\ \A i \in 1..Len(names) : schemas[i].name = names[i]
RegistryStep ==
    LET names == getToolNames(thisRegistry)
    IN /\ call'.op = "executeToolCall" => tools' = tools
       /\ call'.op = "registerTool" =>
             getToolNames(thisRegistry)' =
                IF \E i \in 1..Len(names) : names[i] = call'.name
                THEN names ELSE Append(names, call'.name)
C29_RegistryInvariants ==
    /\ getToolNames(thisRegistry) = TOOL_DEFINITIONS
    /\ []RegistryConsistent
    /\ [][RegistryStep]_vars
C29_Witness ==
    /\ call.op = "executeToolCall"
    /\ call.name = "list_files"
    /\ getToolNames(thisRegistry) = TOOL_DEFINITIONS \o <<"extra", "custom">>
    /\ ToolNamed(thisRegistry, "list_files").handler = "throws"
    /\ ret.v.invoked
    /\ ~ret.v.success
    /\ ret.v.error = "handler failed"

\* C30: search_chunks with valid arguments never reports a failure; when the
\* query holds only quote characters and whitespace, or no row of the index
\* holds one of its terms, it returns success with zero hits, and in the first
\* case the MATCH statement is not run on the database.
NoSearchableToken(q) ==
    \A i \in 1..Len(q) : At(q, i) \in {"'", "\"", " ", "\t", "\n", "\r"}
NothingMatches(q) ==
    LET terms == TermsFrom(q, 1, "")
    IN \A r \in 1..Len(IndexRows) : ~Match(IndexRows[r], terms)
C30_EmptySearchSucceeds ==
    BuiltinCall("search_chunks") =>
        /\ ret.v.success
        /\ ret.v.invoked
        /\ (NoSearchableToken(CallData.query) \/ NothingMatches(CallData.query)) =>
              /\ ret.v.data = <<>>
              /\ ret.v.outputSummary.k # "Found chunks"
        /\ NoSearchableToken(CallData.query) => ~ret.v.queried
C30_Witness ==
    /\ BuiltinCall("search_chunks")
    /\ call.registry.context.indexer.search
    /\ NoSearchableToken(CallData.query)
    /\ ret.v.success
    /\ ret.v.data = <<>>
    /\ ~ret.v.queried

\* C31: Indexer.search returns at most topK results, and for every result
\* over a stored content of L lines the line in focus is the earliest line
\* that contains the largest number of the query's case-folded terms,
\* startLine = max(1, focus - 5), endLine = min(L, focus + 15), so that
\* 1 <= startLine <= focus <= endLine <= L, and the snippet is the lines
\* startLine..endLine of the stored content.
\* the terms of a query: its runs of characters other than whitespace
QueryWords(q) ==
    {w \in (1..Len(q)) \X (1..Len(q)) :
        /\ w[1] <= w[2]
        /\ \A k \in w[1]..w[2] : ~IsSpace(At(q, k))
        /\ w[1] = 1 \/ IsSpace(At(q, w[1] - 1))
        /\ w[2] = Len(q) \/ IsSpace(At(q, w[2] + 1))}
TermsIn(line, q) ==
    Cardinality({w \in QueryWords(q) :
                    includes(ToLower(line), ToLower(SubSeq(q, w[1], w[2])))})
StoredContent(p) ==
    IndexRows[CHOOSE r \in 1..Len(IndexRows) : IndexRows[r].path = p].content
C31_SearchWindow ==
    call.op = "search" =>
        /\ Len(ret.v) <= Max(call.topK, 0)
        /\ \A i \in 1..Len(ret.v) :
              LET hit == ret.v[i]
                  lines == StoredContent(hit.path)
                  L == Len(lines)
                  count == [n \in 1..L |-> TermsIn(lines[n], call.query)]
              IN \E focus \in 1..L :
                    /\ \A n \in 1..L : count[n] <= count[focus]
                    /\ \A n \in 1..(focus - 1) : count[n] < count[focus]
                    /\ hit.startLine = Max(1, focus - 5)
                    /\ hit.endLine = Min(L, focus + 15)
                    /\ 1 <= hit.startLine /\ hit.startLine <= focus
                    /\ focus <= hit.endLine /\ hit.endLine <= L
                    /\ hit.snippet = SubSeq(lines, hit.startLine, hit.endLine)

\* C32: in every state the index handle is open, a search for a term returns
\* exactly the paths whose stored row holds the term, each path once, and the
\* lines of each hit are lines of the row now stored for its path
StoredRows(p) == SelectSeq(database.files, LAMBDA f : f.path = p)
Holding(term) ==
    {database.files[k].path : k \in {n \in 1..Len(database.files) :
                                       Match(database.files[n], TermsFrom(term, 1, ""))}}
C32_IndexReflectsTable ==
    database.open =>
        \A term \in Texts :
            LET hits == searchRows(database.files, database.files_fts, term, 10)
            IN /\ {hits[i].path : i \in 1..Len(hits)} = Holding(term)
               /\ \A i, j \in 1..Len(hits) : hits[i].path = hits[j].path => i = j
               /\ \A i \in 1..Len(hits) :
                     /\ Len(StoredRows(hits[i].path)) = 1
                     /\ hits[i].snippet = SubSeq(StoredRows(hits[i].path)[1].content,
                                                 hits[i].startLine, hits[i].endLine)
\* a file was indexed, changed and indexed again without the delete trigger:
\* the index keeps an entry of the superseded content that holds the term
\* searched, and the search does not return the path
Superseded(term) ==
    {k \in 1..Len(database.files_fts) :
        /\ Match(database.files_fts[k], TermsFrom(term, 1, ""))
        /\ \A n \in 1..Len(database.files) :
              database.files[n].id # database.files_fts[k].rowid}
C32_Witness ==
    /\ database.open
    /\ call.op = "Indexer.search"
    /\ Superseded(call.query) # {}
    /\ \E k \in Superseded(call.query) :
          /\ Len(StoredRows(database.files_fts[k].path)) = 1
          /\ \A i \in 1..Len(ret.v) : ret.v[i].path # database.files_fts[k].path
    /\ Len(database.files) >= 2

\* C33: a run of indexRepository over a tree with unreadable files or
\* directories does not throw, counts every eligible file it could not read in
\* skipped and every one it stored in indexed, and indexed + skipped is the
\* number of eligible files of the tree
EligibleFiles(tree) ==
    {f \in DOMAIN tree.files :
        /\ f[1] = "" \/ f[1] \in Entered(tree)
        /\ ToLower(extname(f[2])) \in INDEXED_EXTENSIONS}
IndexRepositoryStep == call'.op = "indexRepository" /\ worktree' = worktree
C33_ReadErrorsSkipped ==
    [][IndexRepositoryStep =>
          /\ ~ret'.v.threw
          /\ ret'.v.skipped =
                Cardinality({f \in EligibleFiles(worktree) : ~worktree.files[f].readable})
          /\ ret'.v.indexed =
                Cardinality({f \in EligibleFiles(worktree) : worktree.files[f].readable})
          /\ ret'.v.indexed + ret'.v.skipped = Cardinality(EligibleFiles(worktree))]_vars

\* C34: with two runs interleaved at their awaits, a step of the run that
\* works leaves the locals of the waiting run, the files and the database as
\* they are, a change-over resumes the waiting run with exactly the locals it
\* was left with, and both runs keep the registry of the built-in tools
BothRegistriesBuiltin ==
    /\ tools = toolRegistry.tools
    /\ paused.toolRegistry = toolRegistry.tools
RunsIsolatedStep ==
    /\ UNCHANGED <<worktree, database>>
    /\ IF paused'.id = paused.id
       THEN paused' = paused
       ELSE /\ [RunRecord(0)' EXCEPT !.id = paused.id] = paused
            /\ paused' = RunRecord(3 - paused.id)
C35_VerifiedHasSourcesHeader ==
    (call.op = "verifySourcesInAnswer(text)" /\ ret.v.valid)
        => includes(call.answerMd, "## Sources")

\* C39: the citations of the loop's verifier are the citations of
\* parseSourcesFromMarkdown that have startLine >= 1 and endLine >= startLine,
\* in the same order
ValidRange(c) == c.startLine >= 1 /\ c.endLine >= c.startLine
C39_ParsersAgree ==
    call.op = "verifySourcesInAnswer(text)" =>
        ret.v.sources = SelectSeq(parseSourcesFromMarkdown(call.answerMd), ValidRange)
\* a section with citations of valid range before, between and after
\* citations of invalid range
C39_Witness ==
    /\ call.op = "verifySourcesInAnswer(text)"
    /\ Len(ret.v.sources) >= 2
    /\ Len(ret.v.errors) >= 2
    /\ Len(parseSourcesFromMarkdown(call.answerMd)) = Len(ret.v.sources) + Len(ret.v.errors)
    /\ ~ValidRange(parseSourcesFromMarkdown(call.answerMd)[2])

\* C36: after the main loop the forced-termination chat call is made exactly
\* when the loop ended with currentStep = maxSteps, no verified answer and no
\* error (so never after a provider error or an unexpected response); it is
\* made at most once, offers no tools, and its last message is the user
\* message with the termination prompt
ForcedCallMade == chatCalls'.forced = chatCalls.forced + 1
AfterLoopStep ==
    pc = "after" =>
        /\ ForcedCallMade <=> (currentStep = maxSteps /\ ~verified /\ ~error.set)
        /\ ForcedCallMade =>
              /\ chatCalls.forced = 0
              /\ request'.v.tools = <<>>
              /\ request'.v.messages = messages'
              /\ messages'[Len(messages')] =
                    [role |-> "user",
                     content |-> generateForcedTerminationPrompt(maxSteps, gatheredEvidence)]
C36_ForcedCallCondition ==
    [](chatCalls.forced <= 1) /\ [][AfterLoopStep /\ (pc # "after" => ~ForcedCallMade)]_vars

\* C37: a tool invocation that fails leaves gatheredEvidence as it is, one
\* that succeeds appends one crumb, no other step changes the list, and the
\* list shows nowhere but in the forced-termination prompt and the fallback
\* answer: not in the step log, and not in the verdict, which is the
\* verifier's verdict on the answer returned
ToolSettles == pc = "tools" /\ Len(messages') = Len(messages) + 1
EvidenceStep ==
    IF ToolSettles /\ toolResults[Head(pending)].success
    THEN /\ Len(gatheredEvidence') = Len(gatheredEvidence) + 1
         /\ SubSeq(gatheredEvidence', 1, Len(gatheredEvidence)) = gatheredEvidence
         /\ gatheredEvidence'[Len(gatheredEvidence')].toolName = Head(pending).name
    ELSE gatheredEvidence' = gatheredEvidence
StepLogFields == {"stepNo", "toolName", "toolInput", "toolOutputSummary",
                  "modelMessageSummary", "isDone", "verifierPassed", "verifierErrors"}
AnswersOfProvider ==
    {response.assistantText : response \in Responses}
    \cup {parseResponse(response.assistantText, <<>>).answerMd :
             response \in {r \in Responses : IsDoneAnswer(r)}}
EvidenceUse ==
    /\ \A i \in 1..Len(messages) :
          "evidence" \in DOMAIN messages[i].content =>
              /\ i = Len(messages)
              /\ messages[i].content = generateForcedTerminationPrompt(maxSteps, gatheredEvidence)
    /\ \A i \in 1..Len(steps) :
          /\ DOMAIN steps[i] \subseteq StepLogFields
          /\ "evidence" \notin DOMAIN steps[i].modelMessageSummary
    /\ verified =>
          /\ finalAnswer.set
          /\ verifySourcesInAnswer(finalAnswer.v).valid
          /\ verifiedSources = verifySourcesInAnswer(finalAnswer.v).sources
    /\ finalAnswer.set =>
          \/ finalAnswer.v \in AnswersOfProvider
          \/ /\ finalAnswer.v = FallbackAnswer(maxSteps, gatheredEvidence)
             /\ ~verified
C37_EvidenceOnlyForFallback == []EvidenceUse /\ [][EvidenceStep]_vars
\* a response with a failing and a succeeding invocation has been worked
\* off: one crumb for two tool runs
C37_Witness ==
    /\ toolRuns = 2
    /\ Len(gatheredEvidence) = 1
    /\ pending = <<>>
    /\ pc = "returned"
    /\ finalAnswer.set /\ finalAnswer.v = FallbackAnswer(maxSteps, gatheredEvidence)

\* C38: the result of a run has a non-empty sources list exactly when it
\* has verified = true
C38_SourcesIffVerified ==
    pc = "returned" => (result.sources # <<>> <=> result.verified)

\* C40: in the transcript of the legacy Agent.run every tool message stands
\* right after the assistant message that issued its call or after another
\* tool message of the same turn
C40_ToolMessagesFollowTheirCall ==
    \A i \in 1..Len(legacy.messages) :
        legacy.messages[i].role = "tool" =>
            /\ i > 1
            /\ legacy.messages[i - 1].role \in {"assistant", "tool"}
====
